---- MODULE Spec2Model ----
(***************************************************************************)
(* Model of the kubestats resource scanning and change-detection engine.   *)
(*                                                                         *)
(* Persisted state: the kubernetesresource table (resources), the          *)
(* lifecycle event table (events) and the reference table (references).    *)
(* Operations: ResourceDatabaseService.apply_scan_results, driven by       *)
(* tasks.scan_repositories.perform_yaml_scan (specification Spec), and     *)
(* YAMLScanner.scan_repository (specification LegacySpec).                 *)
(***************************************************************************)
EXTENDS Integers, Sequences, FiniteSets, TLC

VARIABLES
    resources,   \* committed kubernetesresource rows; a row's id is its index
    events,      \* committed lifecycle event rows, in insertion order
    scans,       \* number of scan invocations so far; the logical clock
    committed,   \* per repository: the scanned list of its last committed scan
    last,        \* what the last scan invocation computed and returned
    metrics,     \* committed kubernetesresourcemetrics rows
    references,  \* committed kubernetesresourcereference rows
    pending,     \* rows added to the open session and not committed
    repository,  \* per repository: the scan fields of its committed repository row
    task,        \* the last attempt of the scan task: what it did and how it ended
    input,       \* the arguments a function is applied to, when one is applied alone
    output,      \* what that function returned; <<>> before it has returned
    broker,      \* the task messages sent and not yet received by a worker
    workers,     \* per worker process: the task it runs and where it is in it
    workdirs,    \* the directories under REPO_WORKDIR, by name, with what each holds
    triggers     \* number of tasks sent from outside the workers so far

vars == <<resources, events, scans, committed, last, metrics, references, pending,
          repository, task, input, output, broker, workers, workdirs, triggers>>

\* The state of the task layer: the broker, the workers, the disk.
celery == <<broker, workers, workdirs, triggers>>

\* ------------------------------------------------------------------ bounds

\* Number of scan invocations explored.
MaxScans == 3

\* Python's None for strings; Null is None where an id or a timestamp is expected.
None == "None"
Null == 0

Repositories == {"repoA", "repoB"}

\* The document kinds scanned, with the apiVersion each is written in.
ApiVersion == "helm.toolkit.fluxcd.io/v2"
Kind == "HelmRelease"

\* (name, namespace) pairs of the documents a checkout may hold: one
\* cluster-scoped document and one namespaced document.
Identities == { [name |-> "a", namespace |-> None],
                [name |-> "b", namespace |-> "prod"] }

\* File identifiers in scan order (sorted, repository_scanner.py:77) and the
\* content hashes a document may have.
FilePaths == <<"p.yaml", "q.yaml">>
FileHashes == {"h1", "h2"}

\* ------------------------------------------------------------------ helpers

Range(s) == { s[i] : i \in 1..Len(s) }

\* All orders in which a query without ORDER BY may return the rows in S.
Orders(S) == { q \in [1..Cardinality(S) -> S] : Range(q) = S }

\* Op applied to the value of v, with v evaluated once.
Bind(v, Op(_)) == CHOOSE r \in { Op(x) : x \in {v} } : TRUE

\* The elements of seq at the indices in idx, in order.
SelectIdx(seq, idx) ==
    LET F[i \in 0..Len(seq)] ==
            IF i = 0 THEN <<>>
            ELSE IF i \in idx THEN Append(F[i-1], seq[i]) ELSE F[i-1]
    IN F[Len(seq)]

\* ------------------------------------------------------------------ models

\* ResourceData of one document.
ResourceData(id, path, hash) ==
    [ api_version |-> ApiVersion, kind |-> Kind,
      name |-> id.name, namespace |-> id.namespace,
      file_path |-> path, file_hash |-> hash ]

\* Python truthiness of an optional string.
Truthy(s) == s # None /\ s # ""

resource_key(r) ==
    LET namespace_part == IF Truthy(r.namespace) THEN r.namespace \o ":" ELSE ""
    IN r.api_version \o ":" \o r.kind \o ":" \o namespace_part \o r.name

\* KubernetesResource.resource_key(): "the same key format as ResourceData".
row_resource_key(row) == resource_key(row)

\* ------------------------------------------------------------------ scanner

\* What RepositoryScanner.scan_directory can return for a checkout: at most
\* one document per file identifier, files visited in sorted order.
ScannedLists ==
    LET Slot(i) == {<<>>} \cup { <<ResourceData(id, FilePaths[i], h)>> :
                                    id \in Identities, h \in FileHashes }
    IN { s1 \o s2 : s1 \in Slot(1), s2 \in Slot(2) }

\* The one document of repoB's checkout.
ScannedLists1 == ResourceData([name |-> "a", namespace |-> None], FilePaths[1], "h1")

\* ------------------------------------------------------------------ storage

Ids(rows) == 1..Len(rows)

\* select(KubernetesResource).where(repository_id == ..., status == "ACTIVE")
ActiveIds(rows, repository_id) ==
    { i \in Ids(rows) : rows[i].repository_id = repository_id /\ rows[i].status = "ACTIVE" }

\* A dict is the sequence of its (key, value) items in insertion order.
DictKeys(d) == { d[i][1] : i \in 1..Len(d) }
DictGet(d, k) == LET i == CHOOSE j \in 1..Len(d) : d[j][1] = k IN d[i][2]

\* resource_map[key] = resource for every row of the query, in query order:
\* a key keeps the position of its first row and the value of its last row.
get_existing_resources(rows, query) ==
    LET key(i) == row_resource_key(rows[query[i]])
        first == { i \in 1..Len(query) : \A j \in 1..(i-1) : key(j) # key(i) }
        lastOf(i) == CHOOSE j \in 1..Len(query) :
                        /\ key(j) = key(i)
                        /\ \A m \in (j+1)..Len(query) : key(m) # key(i)
    IN SelectIdx([i \in 1..Len(query) |-> <<key(i), query[lastOf(i)]>>], first)

\* The DELETED query without its repository_id condition.
get_deleted_resource_of_any_repository(rows, repository_id, resource_data) ==
    LET match == { i \in Ids(rows) :
                     /\ rows[i].api_version = resource_data.api_version
                     /\ rows[i].kind = resource_data.kind
                     /\ rows[i].name = resource_data.name
                     /\ rows[i].namespace = resource_data.namespace
                     /\ rows[i].status = "DELETED" }
    IN IF match = {} THEN {Null} ELSE match

\* The rows the DELETED query matches; .first() returns one of them, or None.
get_deleted_resource(rows, repository_id, resource_data) ==
    LET match == { i \in Ids(rows) :
                     /\ rows[i].repository_id = repository_id
                     /\ rows[i].api_version = resource_data.api_version
                     /\ rows[i].kind = resource_data.kind
                     /\ rows[i].name = resource_data.name
                     /\ rows[i].namespace = resource_data.namespace
                     /\ rows[i].status = "DELETED" }
    IN IF match = {} THEN {Null} ELSE match

\* ------------------------------------------------------------------ compare

ResourceChange(type, resource_data, existing_resource, before, after) ==
    [ type |-> type, resource_data |-> resource_data,
      existing_resource |-> existing_resource,
      file_hash_before |-> before, file_hash_after |-> after ]

\* resource_data = None of a DELETED change
NoData == [ api_version |-> None, kind |-> None, name |-> None, namespace |-> None,
            file_path |-> None, file_hash |-> None ]

\* A comparison that reports every scanned resource of the active map as
\* MODIFIED, whatever its hash.
ScannedChange_ignoring_hash(existing_resources, resource_data, rows, found) ==
    IF resource_key(resource_data) \in DictKeys(existing_resources)
    THEN LET existing_resource == DictGet(existing_resources, resource_key(resource_data))
         IN <<ResourceChange("MODIFIED", resource_data, existing_resource,
                             rows[existing_resource].file_hash, resource_data.file_hash)>>
    ELSE <<ResourceChange("CREATED", resource_data, Null, None, resource_data.file_hash)>>

\* The change compare_resources derives from scanned resource i, or <<>>.
\* found[i] is what get_deleted_resource returned for it.
ScannedChange(existing_resources, resource_data, rows, found) ==
    LET resource_key_ == resource_key(resource_data) IN
    IF resource_key_ \in DictKeys(existing_resources)
    THEN LET existing_resource == DictGet(existing_resources, resource_key_) IN
         IF rows[existing_resource].file_hash # resource_data.file_hash
         THEN <<ResourceChange("MODIFIED", resource_data, existing_resource,
                               rows[existing_resource].file_hash, resource_data.file_hash)>>
         ELSE <<>>
    ELSE IF found # Null
         THEN <<ResourceChange("RESURRECTED", resource_data, found,
                               rows[found].file_hash, resource_data.file_hash)>>
         ELSE <<ResourceChange("CREATED", resource_data, Null,
                               None, resource_data.file_hash)>>

Flatten(ss) ==
    LET F[i \in 0..Len(ss)] == IF i = 0 THEN <<>> ELSE F[i-1] \o ss[i]
    IN F[Len(ss)]

compare_resources(existing_resources, scanned_resources, rows, found) ==
    LET scanned_keys == { resource_key(scanned_resources[i]) : i \in 1..Len(scanned_resources) }
        per == Flatten([ i \in 1..Len(scanned_resources) |->
                   ScannedChange(existing_resources, scanned_resources[i], rows, found[i]) ])
        gone == { i \in 1..Len(existing_resources) : existing_resources[i][1] \notin scanned_keys }
    IN [ created  |-> SelectSeq(per, LAMBDA c : c.type = "CREATED"),
         modified |-> SelectSeq(per, LAMBDA c : c.type \in {"MODIFIED", "RESURRECTED"}),
         deleted  |-> [ i \in 1..Cardinality(gone) |->
                        LET e == SelectIdx(existing_resources, gone)[i][2] IN
                        ResourceChange("DELETED", NoData, e, rows[e].file_hash, None) ] ]

\* ------------------------------------------------------------------ apply

\* A session's view of the tables while a scan is applied.
Session(rows, evs) == [ rows |-> rows, evs |-> evs ]

KubernetesResourceEvent(row, event_type, file_path, before, after, sync_run_id, now) ==
    [ resource_id |-> row.id, repository_id |-> row.repository_id,
      event_type |-> event_type, event_timestamp |-> now,
      resource_name |-> row.name, resource_namespace |-> row.namespace,
      resource_kind |-> row.kind, resource_api_version |-> row.api_version,
      file_path |-> file_path, file_hash_before |-> before, file_hash_after |-> after,
      sync_run_id |-> sync_run_id ]

_create_resource(s, repository_id, resource_data, sync_run_id, now) ==
    LET kubernetes_resource ==
            [ id |-> Len(s.rows) + 1, repository_id |-> repository_id,
              api_version |-> resource_data.api_version, kind |-> resource_data.kind,
              name |-> resource_data.name, namespace |-> resource_data.namespace,
              file_path |-> resource_data.file_path, file_hash |-> resource_data.file_hash,
              status |-> "ACTIVE", deleted_at |-> Null ]
    IN Session(Append(s.rows, kubernetes_resource),
               Append(s.evs, KubernetesResourceEvent(kubernetes_resource, "CREATED",
                          resource_data.file_path, None, resource_data.file_hash,
                          sync_run_id, now)))

_resurrect_resource(s, existing_resource, resource_data, sync_run_id, now) ==
    LET old_hash == s.rows[existing_resource].file_hash
        row == [ s.rows[existing_resource] EXCEPT
                   !.file_path = resource_data.file_path,
                   !.file_hash = resource_data.file_hash,
                   !.status = "ACTIVE",
                   !.deleted_at = Null ]
    IN Session([ s.rows EXCEPT ![existing_resource] = row ],
               Append(s.evs, KubernetesResourceEvent(row, "RESURRECTED",
                          resource_data.file_path, old_hash, resource_data.file_hash,
                          sync_run_id, now)))

_update_resource(s, existing_resource, resource_data, sync_run_id, now) ==
    LET old_hash == s.rows[existing_resource].file_hash
        row == [ s.rows[existing_resource] EXCEPT
                   !.file_path = resource_data.file_path,
                   !.file_hash = resource_data.file_hash ]
    IN Session([ s.rows EXCEPT ![existing_resource] = row ],
               Append(s.evs, KubernetesResourceEvent(row, "MODIFIED",
                          resource_data.file_path, old_hash, resource_data.file_hash,
                          sync_run_id, now)))

\* A delete that records the DELETED event and leaves the row ACTIVE.
_delete_resource_event_only(s, existing_resource, sync_run_id, now) ==
    Session(s.rows,
            Append(s.evs, KubernetesResourceEvent(s.rows[existing_resource], "DELETED",
                       s.rows[existing_resource].file_path,
                       s.rows[existing_resource].file_hash, None, sync_run_id, now)))

_delete_resource(s, existing_resource, sync_run_id, now) ==
    LET old == s.rows[existing_resource]
        row == [ old EXCEPT !.status = "DELETED", !.deleted_at = now ]
    IN Session([ s.rows EXCEPT ![existing_resource] = row ],
               Append(s.evs, KubernetesResourceEvent(row, "DELETED",
                          old.file_path, old.file_hash, None, sync_run_id, now)))

\* uq_kubernetes_resource_per_repo after migration 4474483aa5b4; a NULL
\* namespace never conflicts (PostgreSQL compares NULLs as distinct).
UniqueViolation(rows) ==
    \E i, j \in Ids(rows) :
        /\ i < j
        /\ rows[i].namespace # None
        /\ rows[i].repository_id = rows[j].repository_id
        /\ rows[i].api_version = rows[j].api_version
        /\ rows[i].kind = rows[j].kind
        /\ rows[i].name = rows[j].name
        /\ rows[i].namespace = rows[j].namespace
        /\ rows[i].file_path = rows[j].file_path

\* The three loops of apply_scan_results, over created, modified and deleted.
ApplyChange(s, repository_id, change, sync_run_id, now) ==
    CASE change.type = "CREATED" ->
            _create_resource(s, repository_id, change.resource_data, sync_run_id, now)
      [] change.type = "RESURRECTED" ->
            _resurrect_resource(s, change.existing_resource, change.resource_data,
                                sync_run_id, now)
      [] change.type = "MODIFIED" ->
            _update_resource(s, change.existing_resource, change.resource_data,
                             sync_run_id, now)
      [] change.type = "DELETED" ->
            _delete_resource(s, change.existing_resource, sync_run_id, now)

ApplyChanges(s, repository_id, changes, sync_run_id, now) ==
    LET F[i \in 0..Len(changes)] ==
            IF i = 0 THEN s
            ELSE Bind(F[i-1], LAMBDA t :
                      ApplyChange(t, repository_id, changes[i], sync_run_id, now))
    IN F[Len(changes)]

ScanResult(created_count, modified_count, deleted_count, total_resources, sync_run_id) ==
    [ created_count |-> created_count, modified_count |-> modified_count,
      deleted_count |-> deleted_count, total_resources |-> total_resources,
      sync_run_id |-> sync_run_id ]

\* A rollback that keeps what the session had flushed.
rollback_keeps_flushed(before, s) == s

\* session.rollback(): the transaction's pending rows are discarded.
rollback(before, s) == before

\* The step at which the storage boundary raises, if it does.
FailPoints == {"none", "load", "persist", "commit"}

ChangeCount(changeset) ==
    Len(changeset.created) + Len(changeset.modified) + Len(changeset.deleted)

\* changes.created + changes.modified + changes.deleted
AllChanges(changeset) == changeset.created \o changeset.modified \o changeset.deleted

EmptyChangeSet == [ created |-> <<>>, modified |-> <<>>, deleted |-> <<>> ]
NoResult == ScanResult(0, 0, 0, 0, Null)

\* apply_scan_results(session, repository_id, resources): query is the order in
\* which the ACTIVE rows are returned, found[i] the row get_deleted_resource
\* returns for resources[i], fail the step at which the database raises
\* ("persist": while the first change is persisted).
apply_scan_results(rows, evs, repository_id, scanned, query, found, fail, sync_run_id, now) ==
    LET before == Session(rows, evs)
        existing_resources == get_existing_resources(rows, query)
        total_active_resources(changeset) ==
            Len(existing_resources) + Len(changeset.created) - Len(changeset.deleted)
        Raised(changeset, s) ==
            [ outcome |-> "error", session |-> rollback(before, s),
              existing |-> <<>>, changeset |-> EmptyChangeSet,
              computed |-> ChangeCount(changeset), result |-> NoResult ]
        Returned(changeset, s) ==
            [ outcome |-> "ok", session |-> s,
              existing |-> existing_resources, changeset |-> changeset,
              computed |-> ChangeCount(changeset),
              result |-> ScanResult(Len(changeset.created), Len(changeset.modified),
                                    Len(changeset.deleted),
                                    total_active_resources(changeset), sync_run_id) ]
        Apply(changeset) ==
            Bind(ApplyChanges(before, repository_id, changeset.created, sync_run_id, now),
                 LAMBDA s1 :
                 IF UniqueViolation(s1.rows)          \* session.flush() of an insert
                 THEN Raised(changeset, s1)
                 ELSE Bind(ApplyChanges(
                               ApplyChanges(s1, repository_id, changeset.modified,
                                            sync_run_id, now),
                               repository_id, changeset.deleted, sync_run_id, now),
                           LAMBDA s3 :
                           IF fail = "commit" \/ UniqueViolation(s3.rows)
                           THEN Raised(changeset, s3)
                           ELSE Returned(changeset, s3)))
    IN IF fail = "load"
       THEN Raised(EmptyChangeSet, before)
       ELSE Bind(compare_resources(existing_resources, scanned, rows, found),
                 LAMBDA changeset :
                 IF fail = "persist"
                 THEN Raised(changeset,
                             ApplyChanges(before, repository_id,
                                          SubSeq(AllChanges(changeset), 1,
                                                 IF ChangeCount(changeset) > 0 THEN 1 ELSE 0),
                                          sync_run_id, now))
                 ELSE Apply(changeset))

\* ------------------------------------------------------------------ task

\* The scanned lists of a repository's checkout: repoA holds any documents,
\* repoB at most the one document that repoA may hold too.
Checkout(repository_id) ==
    IF repository_id = "repoA" THEN ScannedLists
    ELSE { s \in ScannedLists : Len(s) = 0 \/ (Len(s) = 1 /\ s[1] = ScannedLists1) }

\* A run id that two successive invocations share.
uuid4_repeating == (scans \div 2) + 1

\* uuid.uuid4() of one invocation: a token no earlier invocation drew.
uuid4 == scans + 1

\* perform_yaml_scan: scan_directory, then apply_scan_results.
perform_yaml_scan(repository_id, scanned, query, found, fail) ==
    \E run \in {apply_scan_results(resources, events, repository_id, scanned,
                                  query, found, fail, uuid4, scans + 1)} :
        /\ fail = "persist" => run.computed > 0
        /\ resources' = run.session.rows
        /\ events' = run.session.evs
        /\ scans' = scans + 1
        /\ committed' = IF run.outcome = "ok"
                        THEN [ committed EXCEPT ![repository_id] =
                                 [ done |-> TRUE, scanned |-> scanned ] ]
                        ELSE committed
        /\ last' = [ repository_id |-> repository_id,
                     outcome |-> run.outcome,
                     unchanged |-> /\ committed[repository_id].done
                                   /\ committed[repository_id].scanned = scanned,
                     existing |-> run.existing,
                     changeset |-> run.changeset,
                     computed |-> run.computed,
                     result |-> run.result ]
        /\ UNCHANGED <<metrics, references, pending, input, output, celery>>

\* One call of perform_yaml_scan on a repository's checkout, with what the
\* checkout holds and what the database returns or raises chosen freely.
PerformYamlScan(repository_id) ==
    /\ scans < MaxScans
    /\ \E scanned \in Checkout(repository_id) :
       \E query \in Orders(ActiveIds(resources, repository_id)) :
       \E found \in [ 1..Len(scanned) -> Ids(resources) \cup {Null} ] :
       \E fail \in FailPoints :
          /\ \A i \in 1..Len(scanned) :
                found[i] \in get_deleted_resource(resources, repository_id, scanned[i])
          /\ perform_yaml_scan(repository_id, scanned, query, found, fail)
          /\ UNCHANGED <<repository, task>>

\* ------------------------------------------------------------------ YAMLScanner

\* spec of a scanned HelmRelease document, by its content: the document with
\* hash "h1" has spec.chartRef {kind: OCIRepository, name: chart}, the
\* document with hash "h2" has no chartRef and no chart.
Documents(file_hash) ==
    IF file_hash = "h1" THEN [ chartRef |-> "chart" ] ELSE [ chartRef |-> None ]

MapSeq(s, Op(_)) == [ i \in 1..Len(s) |-> Op(s[i]) ]

\* The dict built by d[key] = value over items: a key keeps the position of
\* its first item and the value of its last.
Dict(items) ==
    LET first == { i \in 1..Len(items) : \A j \in 1..(i-1) : items[j][1] # items[i][1] }
        lastOf(i) == CHOOSE j \in 1..Len(items) :
                        /\ items[j][1] = items[i][1]
                        /\ \A m \in (j+1)..Len(items) : items[m][1] # items[i][1]
    IN SelectIdx([ i \in 1..Len(items) |-> <<items[i][1], items[lastOf(i)][2]>> ], first)

_resource_key(resource) ==
    LET namespace_part == IF Truthy(resource.namespace)
                          THEN resource.namespace \o ":" ELSE ""
    IN resource.api_version \o ":" \o resource.kind \o ":" \o namespace_part \o resource.name

\* select(KubernetesResource).where(repository_id == ..., current_status == "ACTIVE")
CurrentIds(rows, repository_id) ==
    { i \in Ids(rows) : /\ rows[i].repository_id = repository_id
                        /\ rows[i].current_status = "ACTIVE" }

_get_current_resources(rows, query) ==
    Dict([ i \in 1..Len(query) |-> <<_resource_key(rows[query[i]]), query[i]>> ])

\* YAMLParser.scan_filesystem: yaml_files are the parsed documents in the
\* order rglob yields their files.
scan_filesystem(yaml_files) ==
    Dict([ i \in 1..Len(yaml_files) |-> <<resource_key(yaml_files[i]), yaml_files[i]>> ])

detect_changes(current, filesystem, rows) ==
    [ created |->
        MapSeq(SelectSeq(filesystem, LAMBDA it : it[1] \notin DictKeys(current)),
               LAMBDA it : ResourceChange("CREATED", it[2], Null, None, it[2].file_hash)),
      deleted |->
        MapSeq(SelectSeq(current, LAMBDA it : it[1] \notin DictKeys(filesystem)),
               LAMBDA it : ResourceChange("DELETED", NoData, it[2],
                                          rows[it[2]].file_hash, None)),
      modified |->
        MapSeq(SelectSeq(filesystem, LAMBDA it :
                   /\ it[1] \in DictKeys(current)
                   /\ rows[DictGet(current, it[1])].file_hash # it[2].file_hash),
               LAMBDA it : ResourceChange("MODIFIED", it[2], DictGet(current, it[1]),
                                          rows[DictGet(current, it[1])].file_hash,
                                          it[2].file_hash)) ]

\* The session of a YAMLScanner: the tables as the open transaction sees them.
ScannerSession(rows, evs, mets, refs) ==
    [ rows |-> rows, evs |-> evs, mets |-> mets, refs |-> refs ]

\* One ResourceLifecycleEvent; a change's resource_* and file_path properties
\* read resource_data when it is set, else existing_resource.
ResourceLifecycleEvent(change, rows, repository_id, sync_run_id, now) ==
    LET of == IF change.resource_data # NoData THEN change.resource_data
              ELSE rows[change.existing_resource]
    IN [ resource_id |-> change.existing_resource, repository_id |-> repository_id,
         event_type |-> change.type, event_timestamp |-> now,
         resource_name |-> of.name, resource_namespace |-> of.namespace,
         resource_kind |-> of.kind, resource_api_version |-> of.api_version,
         file_path |-> of.file_path,
         file_hash_before |-> change.file_hash_before,
         file_hash_after |-> change.file_hash_after,
         sync_run_id |-> sync_run_id ]

_record_lifecycle_events(s, changes, repository_id, sync_run_id, now) ==
    [ s EXCEPT !.evs = s.evs \o
        MapSeq(AllChanges(changes), LAMBDA change :
               ResourceLifecycleEvent(change, s.rows, repository_id, sync_run_id, now)) ]

extract_resource_metrics(resource_data, resource_id) ==
    [ resource_id |-> resource_id,
      chart_name |-> Documents(resource_data.file_hash).chartRef,
      source_revision |-> Documents(resource_data.file_hash).chartRef ]

\* The rows the DELETED query of _update_resources matches.
existing_deleted_resource(rows, repository_id, resource_data) ==
    LET match == { i \in Ids(rows) :
                     /\ rows[i].repository_id = repository_id
                     /\ rows[i].api_version = resource_data.api_version
                     /\ rows[i].kind = resource_data.kind
                     /\ rows[i].name = resource_data.name
                     /\ rows[i].namespace = resource_data.namespace
                     /\ rows[i].current_status = "DELETED" }
    IN IF match = {} THEN {Null} ELSE match

\* One iteration of a loop of _update_resources; found is the row the
\* DELETED query returned for a created change.
UpdateResource(s, repository_id, change, found, now) ==
    LET data == change.resource_data
        old == s.rows[change.existing_resource]
    IN CASE change.type = "CREATED" /\ found # Null ->
              [ s EXCEPT !.rows[found] =
                           [ @ EXCEPT !.file_path = data.file_path,
                                      !.file_hash = data.file_hash,
                                      !.current_status = "ACTIVE",
                                      !.deleted_at = Null,
                                      !.modification_count = @ + 1,
                                      !.last_change_type = "RESURRECTED" ],
                         !.mets = Append(@, extract_resource_metrics(data, found)) ]
         [] change.type = "CREATED" /\ found = Null ->
              [ s EXCEPT !.rows = Append(@,
                           [ id |-> Len(s.rows) + 1, repository_id |-> repository_id,
                             api_version |-> data.api_version, kind |-> data.kind,
                             name |-> data.name, namespace |-> data.namespace,
                             file_path |-> data.file_path, file_hash |-> data.file_hash,
                             current_status |-> "ACTIVE", deleted_at |-> Null,
                             modification_count |-> 0, last_change_type |-> "CREATED" ]),
                         !.mets = Append(@, extract_resource_metrics(data, Len(s.rows) + 1)) ]
         [] change.type = "MODIFIED" ->
              [ s EXCEPT !.rows[change.existing_resource] =
                           [ @ EXCEPT !.file_path = data.file_path,
                                      !.file_hash = data.file_hash,
                                      !.modification_count = @ + 1,
                                      !.last_change_type = "MODIFIED" ],
                         !.mets = Append(@, extract_resource_metrics(data,
                                                change.existing_resource)) ]
         [] change.type = "DELETED" ->
              [ s EXCEPT !.rows[change.existing_resource] =
                           [ old EXCEPT !.current_status = "DELETED",
                                        !.deleted_at = now,
                                        !.last_change_type = "DELETED" ] ]

\* The three loops of _update_resources, up to its commit; found[k] is the
\* row the DELETED query returns for changes.created[k].
_update_resources(s, changes, repository_id, found, now) ==
    LET all == AllChanges(changes)
        F[i \in 0..Len(all)] ==
            IF i = 0 THEN s
            ELSE Bind(F[i-1], LAMBDA t :
                      UpdateResource(t, repository_id, all[i],
                                     IF i <= Len(changes.created) THEN found[i] ELSE Null,
                                     now))
    IN F[Len(all)]

_get_api_version_for_kind(kind) ==
    CASE kind = "OCIRepository" -> "source.toolkit.fluxcd.io/v1"
      [] kind = "HelmRepository" -> "source.toolkit.fluxcd.io/v1beta2"
      [] kind = "GitRepository" -> "source.toolkit.fluxcd.io/v1beta2"
      [] OTHER -> "source.toolkit.fluxcd.io/v1beta2"

\* The references a HelmRelease document makes: its chartRef, if it has one.
find_resource_references(resource_data) ==
    LET spec == Documents(resource_data.file_hash) IN
    IF resource_data.kind = "HelmRelease" /\ spec.chartRef # None
    THEN << [ type |-> "chartRef", path |-> "spec.chartRef",
              target_name |-> spec.chartRef,
              target_namespace |-> resource_data.namespace,
              target_kind |-> "OCIRepository",
              target_api_version |-> _get_api_version_for_kind("OCIRepository") ] >>
    ELSE <<>>

\* The ACTIVE rows the query of _resolve_source_resource matches.
_resolve_source_resource(rows, repository_id, resource_data) ==
    LET match == { i \in Ids(rows) :
                     /\ rows[i].repository_id = repository_id
                     /\ rows[i].api_version = resource_data.api_version
                     /\ rows[i].kind = resource_data.kind
                     /\ rows[i].name = resource_data.name
                     /\ rows[i].namespace = resource_data.namespace
                     /\ rows[i].current_status = "ACTIVE" }
    IN IF match = {} THEN {Null} ELSE match

\* The rows a reference's target may resolve to: none unless the target's
\* key is among the scanned resources.
_resolve_reference_target(ref, filesystem, rows, repository_id) ==
    LET namespace_part == IF Truthy(ref.target_namespace)
                          THEN ref.target_namespace \o ":" ELSE ""
        target_key == ref.target_api_version \o ":" \o ref.target_kind \o ":"
                      \o namespace_part \o ref.target_name
        match == { i \in Ids(rows) :
                     /\ rows[i].repository_id = repository_id
                     /\ rows[i].api_version = ref.target_api_version
                     /\ rows[i].kind = ref.target_kind
                     /\ rows[i].name = ref.target_name
                     /\ rows[i].namespace = ref.target_namespace
                     /\ rows[i].current_status = "ACTIVE" }
    IN IF target_key \in DictKeys(filesystem) /\ match # {} THEN match ELSE {Null}

\* The KubernetesResourceReference rows extract_resource_references adds to
\* the session; source[i] and target[i] are what the two queries return for
\* the i-th scanned resource.
extract_resource_references(filesystem, repository_id, source, target) ==
    Flatten([ i \in 1..Len(filesystem) |->
        MapSeq(find_resource_references(filesystem[i][2]), LAMBDA ref :
               [ source_resource_id |-> source[i],
                 source_repository_id |-> repository_id,
                 target_repository_id |-> IF target[i] # Null THEN repository_id ELSE None,
                 target_resource_id |-> target[i],
                 reference_type |-> ref.type, reference_path |-> ref.path,
                 target_name |-> ref.target_name,
                 target_namespace |-> ref.target_namespace,
                 target_kind |-> ref.target_kind,
                 target_api_version |-> ref.target_api_version,
                 is_external_reference |-> target[i] = Null ]) ])

\* The step of YAMLScanner.scan_repository at which the database raises.
ScannerFailPoints == {"none", "load", "commit", "extract"}

Reverse(s) == [ i \in 1..Len(s) |-> s[Len(s) + 1 - i] ]

\* The orders in which rglob may yield the files of a checkout; both orders
\* are explored where they decide which document of a key the dict keeps.
YamlFiles(files) ==
    IF \E i, j \in 1..Len(files) : i < j /\ resource_key(files[i]) = resource_key(files[j])
    THEN {files, Reverse(files)}
    ELSE {files}

\* YAMLScanner.scan_repository(repository, repo_path) on a session that may
\* still hold the pending rows of an earlier call.
YAMLScanner_scan_repository(repository_id) ==
    /\ scans < MaxScans
    /\ \E files \in Checkout(repository_id) :
       \E yaml_files \in YamlFiles(files) :
       \E query \in Orders(CurrentIds(resources, repository_id)) :
       \E fail \in ScannerFailPoints :
       \E current_resources \in {_get_current_resources(resources, query)} :
       \E filesystem_resources \in {scan_filesystem(yaml_files)} :
       \E changes \in {detect_changes(current_resources, filesystem_resources, resources)} :
       \E found \in [ 1..Len(changes.created) ->
                        UNION { existing_deleted_resource(resources, repository_id,
                                    changes.created[k].resource_data) :
                                k \in 1..Len(changes.created) } ] :
       \E sync_run_id \in {uuid4} :
       \E before \in {ScannerSession(resources, events, metrics, references)} :
          /\ \A k \in 1..Len(changes.created) :
                found[k] \in existing_deleted_resource(resources, repository_id,
                                                       changes.created[k].resource_data)
          /\ fail = "extract" => Len(filesystem_resources) > 0
          /\ \E s \in {_update_resources(
                          _record_lifecycle_events(
                              ScannerSession(resources, events, metrics,
                                             references \o pending),
                              changes, repository_id, sync_run_id, scans + 1),
                          changes, repository_id, found, scans + 1)} :
             \E source \in [ 1..Len(filesystem_resources) ->
                              UNION { _resolve_source_resource(s.rows, repository_id,
                                          filesystem_resources[i][2]) :
                                      i \in 1..Len(filesystem_resources) } ] :
             \E target \in [ 1..Len(filesystem_resources) ->
                              {Null} \cup UNION { _resolve_reference_target(
                                          r, filesystem_resources, s.rows, repository_id) :
                                      r \in UNION { Range(find_resource_references(
                                                        filesystem_resources[i][2])) :
                                                    i \in 1..Len(filesystem_resources) } } ] :
             \E db \in { IF fail \in {"load", "commit"} THEN rollback(before, s)
                         ELSE s } :
                /\ \A i \in 1..Len(filesystem_resources) :
                      /\ source[i] \in _resolve_source_resource(
                                          s.rows, repository_id, filesystem_resources[i][2])
                      /\ \A r \in Range(find_resource_references(filesystem_resources[i][2])) :
                            target[i] \in _resolve_reference_target(
                                             r, filesystem_resources, s.rows, repository_id)
                      /\ find_resource_references(filesystem_resources[i][2]) = <<>>
                            => target[i] = Null
                /\ resources' = db.rows
                /\ events' = db.evs
                /\ metrics' = db.mets
                /\ references' = db.refs
                /\ pending' = IF fail = "none"
                              THEN extract_resource_references(
                                       filesystem_resources, repository_id, source, target)
                              ELSE <<>>
                /\ scans' = scans + 1
                /\ committed' = IF fail = "none"
                                THEN [ committed EXCEPT ![repository_id] =
                                         [ done |-> TRUE, scanned |-> yaml_files ] ]
                                ELSE committed
                /\ last' = [ repository_id |-> repository_id,
                             outcome |-> IF fail = "none" THEN "ok" ELSE "error",
                             unchanged |-> /\ committed[repository_id].done
                                           /\ committed[repository_id].scanned = yaml_files,
                             existing |-> IF fail = "none" THEN current_resources ELSE <<>>,
                             changeset |-> IF fail = "none" THEN changes ELSE EmptyChangeSet,
                             computed |-> IF fail = "load" THEN 0 ELSE ChangeCount(changes),
                             result |-> IF fail = "none"
                                        THEN ScanResult(Len(changes.created),
                                                 Len(changes.modified), Len(changes.deleted),
                                                 Len(filesystem_resources), sync_run_id)
                                        ELSE NoResult ]
                /\ UNCHANGED <<repository, task, input, output, celery>>

\* The owner of the session closes it: what was not committed is discarded.
session_close ==
    /\ pending # <<>>
    /\ pending' = <<>>
    /\ UNCHANGED <<resources, events, scans, committed, last, metrics, references,
                   repository, task, input, output, celery>>

\* A Repository row as the discovery creates it: never synced, never scanned.
NewRepository ==
    [ sync_status |-> "pending", sync_error |-> <<>>, last_sync_at |-> <<>>,
      working_directory_path |-> None,
      scan_status |-> "pending", scan_error |-> <<>>,
      last_scan_at |-> <<>>, last_scan_total_resources |-> <<>> ]

\* The worker processes of the pool.
Workers == {"w1", "w2"}

\* A worker process that runs no task; result is what its last task returned.
Idle(result) ==
    [ task |-> "idle", pc |-> "idle", repository_id |-> None, stats |-> None,
      retries |-> 0, error |-> <<>>, scanned |-> <<>>, existing |-> <<>>, rows |-> <<>>,
      scan_result |-> <<>>,
      active_repo_ids |-> {}, items |-> {}, cleaned_count |-> 0,
      result |-> result ]

\* No attempt of the scan task has run.
NoTask ==
    [ repository_id |-> None, working_directory_path |-> None,
      retries |-> 0, statuses |-> <<>>, scanned |-> FALSE,
      status |-> "none", exc |-> <<>>, countdown |-> 0, triggered |-> <<>> ]

\* The directories REPO_WORKDIR may hold: the working directory of repoA,
\* named by its id, and one that belongs to no repository.
Directories == {"repoA", "orphan"}

\* The resource tables of a database in which no scan has run.
EmptyResourceTables ==
    /\ resources = <<>>
    /\ events = <<>>
    /\ scans = 0
    /\ committed = [ r \in Repositories |-> [ done |-> FALSE, scanned |-> <<>> ] ]
    /\ last = [ repository_id |-> None, outcome |-> "none", unchanged |-> FALSE,
                existing |-> <<>>, changeset |-> EmptyChangeSet, computed |-> 0, result |-> NoResult ]
    /\ metrics = <<>>
    /\ references = <<>>
    /\ pending = <<>>
    /\ task = NoTask

\* A database in which no scan has run, with no task sent and nothing on disk.
EmptyDatabase ==
    /\ EmptyResourceTables
    /\ repository = [ r \in Repositories |-> NewRepository ]
    /\ broker = <<>>
    /\ workers = [ w \in Workers |-> Idle(<<>>) ]
    /\ workdirs = [ d \in Directories |-> "absent" ]
    /\ triggers = 0

tables == <<resources, events, scans, committed, last, metrics, references, pending,
            repository, task, celery>>

Init ==
    /\ EmptyDatabase
    /\ input = <<>>
    /\ output = <<>>

Next == \E r \in Repositories : PerformYamlScan(r)

Spec == Init /\ [][Next]_vars

ScannerNext ==
    \/ \E r \in Repositories : YAMLScanner_scan_repository(r)
    \/ session_close

LegacySpec == Init /\ [][ScannerNext]_vars

\* ------------------------------------------------------------------ the scan task

\* Scans explored under the task.
MaxTaskScans == 2

\* max_retries of task_self.retry, and the length scan_error is cut to.
MaxRetries == 3
ErrorLimit == 2000

\* An error message: the text it starts with and its number of characters.
Message(text, length) == [ text |-> text, length |-> length ]

\* error[:n]
Slice(error, n) == Message(error.text, IF error.length < n THEN error.length ELSE n)

\* repository.working_directory_path as the task finds it: not set, set to a
\* directory that does not exist, set to a checkout.
WorkingDirectories == {None, "missing", "present"}

\* A validation that accepts every working directory.
validate_working_directory_accepting(working_directory_path) == <<>>

\* validate_working_directory: the ValueError it raises, <<>> when it returns.
validate_working_directory(working_directory_path) ==
    IF ~Truthy(working_directory_path)
    THEN <<Message("Repository has no working directory", 45)>>
    ELSE IF working_directory_path = "missing"
         THEN <<Message("Working directory does not exist", 60)>>
         ELSE <<>>

\* The repository whose scan task is followed, and what its checkout may
\* hold when the task runs: at most the one file p.yaml.
TaskRepositories == {"repoA"}
TaskCheckout(repository_id) ==
    { s \in Checkout(repository_id) : \A i \in 1..Len(s) : s[i].file_path = FilePaths[1] }

\* What scan_directory finds under the working directory: a directory that
\* does not exist holds no file.
ScanDirectory(repository_id, working_directory_path) ==
    IF working_directory_path = "present" THEN TaskCheckout(repository_id) ELSE {<<>>}

\* str(error) of what the database or the broker raises: a short message, and
\* a statement with its parameters, longer than the scan_error column.
DatabaseErrors == { Message("connection lost", 15), Message("(psycopg) error [SQL: ...]", 2500) }

\* An update that writes every character of the message.
update_scan_status_unbounded(row, status, error, now) ==
    [ row EXCEPT !.scan_status = status,
                 !.scan_error = error,
                 !.last_scan_at = IF status = "success" THEN <<now>> ELSE @ ]

\* update_scan_status: the row it commits; error is <<>> for None.
update_scan_status(row, status, error, now) ==
    [ row EXCEPT !.scan_status = status,
                 !.scan_error = IF error # <<>> /\ error[1].length > 0
                                THEN <<Slice(error[1], ErrorLimit)>> ELSE <<>>,
                 !.last_scan_at = IF status = "success" THEN <<now>> ELSE @ ]

\* Where an attempt outside perform_yaml_scan can raise: the commit of the
\* SYNCING or of the SUCCESS status, the hand-over to the metrics task.
TaskFailPoints == {"none", "syncing", "success", "metrics"}

\* request.retries of the attempts that can be delivered: a fresh call, or
\* the retry the last attempt scheduled.
Deliveries(repository_id) ==
    {0} \cup IF task.repository_id = repository_id /\ task.status = "retry"
             THEN {task.retries + 1} ELSE {}

\* handle_scan_error of an attempt that raised error: row is the committed
\* repository row; the status update commits or raises (handler), then
\* task_self.retry(countdown, max_retries, exc) raises Retry, or exc when
\* the retries are used up.
handle_scan_error(repository_id, working_directory_path, row, error, handler, retries, statuses, scanned, triggered, now) ==
    /\ repository' = [ repository EXCEPT ![repository_id] =
                         IF handler = "ok"
                         THEN update_scan_status(row, "error", <<error>>, now)
                         ELSE row ]
    /\ task' = [ repository_id |-> repository_id,
                 working_directory_path |-> working_directory_path,
                 retries |-> retries,
                 statuses |-> IF handler = "ok" THEN Append(statuses, "error") ELSE statuses,
                 scanned |-> scanned,
                 status |-> IF retries + 1 > MaxRetries THEN "failed" ELSE "retry",
                 exc |-> <<error>>,
                 countdown |-> 60 * (2 ^ retries),
                 triggered |-> triggered ]

\* The task scan_repository, one attempt: get_repository_by_id,
\* validate_working_directory, SYNCING, perform_yaml_scan, SUCCESS,
\* trigger_metrics_task; any exception goes to handle_scan_error.
scan_repository(repository_id) ==
    \E retries \in Deliveries(repository_id) :
    \E working_directory_path \in WorkingDirectories :
    \E failT \in TaskFailPoints :
    \E handler \in {"ok", "fails"} :
    \E invalid \in {validate_working_directory(working_directory_path)} :
    \E syncing \in {update_scan_status(repository[repository_id], "syncing", <<>>, scans + 1)} :
        IF invalid # <<>>
        THEN /\ failT = "none"
             /\ handle_scan_error(repository_id, working_directory_path,
                                    repository[repository_id], invalid[1],
                                  handler, retries, <<>>, FALSE, <<>>, scans + 1)
             /\ UNCHANGED <<resources, events, scans, committed, last,
                            metrics, references, pending, input, output, celery>>
        ELSE IF failT = "syncing"
        THEN /\ \E error \in DatabaseErrors :
                  handle_scan_error(repository_id, working_directory_path,
                                    repository[repository_id], error,
                                    handler, retries, <<>>, FALSE, <<>>, scans + 1)
             /\ UNCHANGED <<resources, events, scans, committed, last,
                            metrics, references, pending, input, output, celery>>
        ELSE /\ scans < MaxTaskScans
             /\ \E scanned \in ScanDirectory(repository_id, working_directory_path) :
                \E query \in Orders(ActiveIds(resources, repository_id)) :
                \E found \in [ 1..Len(scanned) -> Ids(resources) \cup {Null} ] :
                \E fail \in FailPoints :
                   /\ \A i \in 1..Len(scanned) :
                         found[i] \in get_deleted_resource(resources, repository_id, scanned[i])
                   /\ perform_yaml_scan(repository_id, scanned, query, found, fail)
             /\ IF last'.outcome = "error"
                THEN /\ failT = "none"
                     /\ \E error \in DatabaseErrors :
                          handle_scan_error(repository_id, working_directory_path, syncing, error, handler, retries,
                                            <<"syncing">>, TRUE, <<>>, scans + 1)
                ELSE \E total \in {last'.result.total_resources} :
                     \E success \in {update_scan_status(
                                        [ syncing EXCEPT !.last_scan_total_resources = <<total>> ],
                                        "success", <<>>, scans + 1)} :
                        CASE failT = "success" ->
                               \E error \in DatabaseErrors :
                                  handle_scan_error(repository_id, working_directory_path, syncing, error, handler,
                                      retries, <<"syncing">>, TRUE, <<>>, scans + 1)
                          [] failT = "metrics" ->
                               \E error \in DatabaseErrors :
                                  handle_scan_error(repository_id, working_directory_path, success, error, handler,
                                      retries, <<"syncing", "success">>, TRUE, <<>>, scans + 1)
                          [] failT = "none" ->
                               /\ handler = "ok"
                               /\ repository' = [ repository EXCEPT ![repository_id] = success ]
                               /\ task' = [ repository_id |-> repository_id,
                                            working_directory_path |-> working_directory_path,
                                            retries |-> retries,
                                            statuses |-> <<"syncing", "success">>,
                                            scanned |-> TRUE, status |-> "success",
                                            exc |-> <<>>, countdown |-> 0,
                                            triggered |-> <<total>> ]

TaskNext == \E r \in TaskRepositories : scan_repository(r)

TaskSpec == Init /\ [][TaskNext]_vars

\* ------------------------------------------------------------------ RepositoryScanner

\* chartRef of a HelmRelease spec: absent, a map with a name, or a bare
\* string where the map belongs.
ChartRef(shape, name) == [ shape |-> shape, name |-> name ]
NoChartRef == ChartRef("absent", None)

\* spec of a document: spec.ref.tag, spec.chartRef, spec.chart.spec.version.
DocumentSpec(tag, chartRef, version) ==
    [ tag |-> tag, chartRef |-> chartRef, version |-> version ]

\* One parsed YAML document.
Document(apiVersion, kind, name, spec) ==
    [ apiVersion |-> apiVersion, kind |-> kind, name |-> name, namespace |-> None,
      spec |-> spec ]

OCIRepository(name, tag) ==
    Document("source.toolkit.fluxcd.io/v1", "OCIRepository", name,
             DocumentSpec(tag, NoChartRef, None))
HelmRelease(name, chartRef) ==
    Document("helm.toolkit.fluxcd.io/v2", "HelmRelease", name,
             DocumentSpec(None, chartRef, None))
ConfigMap(name) ==
    Document("v1", "ConfigMap", name, DocumentSpec(None, NoChartRef, None))

\* The documents a file may hold.
Docs ==
    { OCIRepository("grafana", "9.2.1"), OCIRepository("grafana", "9.3.0"),
      HelmRelease("grafana", ChartRef("map", "grafana")),
      HelmRelease("grafana", ChartRef("string", "grafana")),
      ConfigMap("settings") }

\* A file of the checkout: its path below the root, the exception reading
\* or parsing it raises (None when it parses), and its documents.
File(path, error, documents) ==
    [ path |-> path, error |-> error, documents |-> documents ]

\* The result of a call: a value, or an exception.
Returned(value) == [ raised |-> FALSE, value |-> value ]
Raised == [ raised |-> TRUE, value |-> <<>> ]

\* str(document), and the SHA-256 digest of a text.
Str(document) ==
    "{apiVersion: " \o document.apiVersion \o ", kind: " \o document.kind
      \o ", name: " \o document.name
      \o ", tag: " \o document.spec.tag
      \o ", chartRef: " \o document.spec.chartRef.shape \o " " \o document.spec.chartRef.name
      \o ", version: " \o document.spec.version \o "}"
sha256(text) == "sha256(" \o text \o ")"

\* The digest parse_document computes: of the one document.
sha256_of_document(file, document) == sha256(Str(document))

\* find_yaml_files: the files of the checkout, sorted by path.
find_yaml_files(checkout) == checkout

\* parse_yaml_file: the documents, or the YAMLError / UnicodeDecodeError /
\* OSError it raises.
parse_yaml_file(file) ==
    IF file.error # None THEN Raised ELSE Returned(file.documents)

\* FluxResourceScanner.is_supported_resource, by prefix of the apiVersion.
is_supported_resource(api_version, kind) ==
    \/ api_version = "helm.toolkit.fluxcd.io/v2" /\ kind = "HelmRelease"
    \/ api_version = "source.toolkit.fluxcd.io/v1" /\ kind = "OCIRepository"

\* parse_document of the kind's scanner: version is spec.chart.spec.version
\* for a HelmRelease and spec.ref.tag for an OCIRepository.
parse_document(file, file_identifier, document) ==
    [ api_version |-> document.apiVersion, kind |-> document.kind,
      name |-> document.name, namespace |-> document.namespace,
      file_path |-> file_identifier,
      file_hash |-> sha256_of_document(file, document),
      version |-> IF document.kind = "HelmRelease" THEN document.spec.version
                  ELSE document.spec.tag,
      data |-> document.spec ]

_validate_resource_data(resource_data) ==
    /\ Truthy(resource_data.api_version) /\ Truthy(resource_data.kind)
    /\ Truthy(resource_data.name) /\ Truthy(resource_data.file_path)
    /\ Truthy(resource_data.file_hash)

\* process_document: the resources (none or one) of a document.
process_document(file, document, doc_index) ==
    IF ~is_supported_resource(document.apiVersion, document.kind) THEN <<>>
    ELSE LET file_identifier == IF doc_index > 0
                                THEN file.path \o "#" \o ToString(doc_index)
                                ELSE file.path
             resource_data == parse_document(file, file_identifier, document)
         IN IF _validate_resource_data(resource_data) THEN <<resource_data>> ELSE <<>>

\* process_yaml_file: the resources of a file, or the exception of
\* parse_yaml_file.
process_yaml_file(file) ==
    IF parse_yaml_file(file).raised THEN Raised
    ELSE LET documents == parse_yaml_file(file).value
             F[i \in 0..Len(documents)] ==
                 IF i = 0 THEN <<>>
                 ELSE F[i-1] \o process_document(file, documents[i], i - 1)
         IN Returned(F[Len(documents)])

IsHelmRelease(resource) ==
    resource.api_version = "helm.toolkit.fluxcd.io/v2" /\ resource.kind = "HelmRelease"
IsOCIRepository(resource) ==
    resource.api_version = "source.toolkit.fluxcd.io/v1" /\ resource.kind = "OCIRepository"

\* oci_versions.get(name): the version of the last OCIRepository called name.
oci_versions(resources_, name) ==
    LET of == { i \in 1..Len(resources_) :
                  IsOCIRepository(resources_[i]) /\ resources_[i].name = name }
    IN IF of = {} THEN None
       ELSE resources_[CHOOSE i \in of : \A j \in of : j <= i].version

\* The HelmReleases post_process resolves a version for.
Unversioned(resource) ==
    /\ resource.version = None
    /\ IsHelmRelease(resource)
    /\ resource.data # DocumentSpec(None, NoChartRef, None)

\* A resolution that leaves every version as parsed.
post_process_without_versions(resources_) == Returned(resources_)

\* A resolution that does not test resource.version is None.
post_process_overwriting(resources_) ==
    IF \E i \in 1..Len(resources_) :
          Unversioned(resources_[i]) /\ resources_[i].data.chartRef.shape = "string"
    THEN Raised
    ELSE Returned([ i \in 1..Len(resources_) |->
                      IF IsHelmRelease(resources_[i]) /\ resources_[i].data.chartRef.shape = "map"
                      THEN [ resources_[i] EXCEPT !.version =
                               oci_versions(resources_, resources_[i].data.chartRef.name) ]
                      ELSE resources_[i] ])

\* FluxResourceScanner.post_process: resource.data.get("chartRef", {}).get("name")
\* raises AttributeError when chartRef is not a map. No document modelled is a
\* Kustomization, so no namespace is inherited.
post_process(resources_) ==
    IF \E i \in 1..Len(resources_) :
          Unversioned(resources_[i]) /\ resources_[i].data.chartRef.shape = "string"
    THEN Raised
    ELSE Returned([ i \in 1..Len(resources_) |->
                      IF Unversioned(resources_[i])
                      THEN [ resources_[i] EXCEPT !.version =
                               oci_versions(resources_, resources_[i].data.chartRef.name) ]
                      ELSE resources_[i] ])

\* The resources of the files that process_yaml_file returns for; a file it
\* raises for is skipped.
FileResources(yaml_files) ==
    LET F[i \in 0..Len(yaml_files)] ==
            IF i = 0 THEN <<>>
            ELSE IF process_yaml_file(yaml_files[i]).raised THEN F[i-1]
                 ELSE F[i-1] \o process_yaml_file(yaml_files[i]).value
    IN F[Len(yaml_files)]

\* RepositoryScanner.scan_directory.
scan_directory(checkout) ==
    LET resources_ == FileResources(find_yaml_files(checkout))
    IN IF resources_ # <<>> THEN post_process(resources_) ELSE Returned(resources_)

\* ------------------------------------------------------------------ scans of a Flux checkout

\* Scans explored over the checkouts below.
MaxFluxScans == 3

\* The checkouts of the repository: hr.yaml holds the HelmRelease grafana
\* with chartRef.name grafana, or nothing; oci.yaml holds the OCIRepository
\* grafana with one of two tags, or nothing.
FluxCheckouts ==
    { << File("hr.yaml", None, hr), File("oci.yaml", None, oci) >> :
        hr \in { <<>>, <<HelmRelease("grafana", ChartRef("map", "grafana"))>> },
        oci \in { <<>>, <<OCIRepository("grafana", "9.2.1")>>,
                  <<OCIRepository("grafana", "9.3.0")>> } }

\* perform_yaml_scan on one of the checkouts: scan_directory, then
\* apply_scan_results on what it returned.
FluxScan(repository_id) ==
    /\ scans < MaxFluxScans
    /\ \E checkout \in FluxCheckouts :
       \E scan \in {scan_directory(checkout)} :
          /\ ~scan.raised
          /\ \E query \in Orders(ActiveIds(resources, repository_id)) :
             \E found \in [ 1..Len(scan.value) -> Ids(resources) \cup {Null} ] :
             \E fail \in FailPoints :
                /\ \A i \in 1..Len(scan.value) :
                      found[i] \in get_deleted_resource(resources, repository_id,
                                                        scan.value[i])
                /\ perform_yaml_scan(repository_id, scan.value, query, found, fail)
    /\ UNCHANGED <<repository, task>>

FluxNext == \E r \in TaskRepositories : FluxScan(r)

FluxSpec == Init /\ [][FluxNext]_vars

\* ------------------------------------------------------------------ ResourceExtractor

\* A key a mapping does not hold, and mapping.get(key, default).
Missing == "<missing>"
Get(value, default) == IF value = Missing THEN default ELSE value

\* spec.chartRef of a HelmRelease: a mapping of name, kind and namespace, or
\* no chartRef at all.
SpecChartRef(name, kind, namespace) ==
    [ present |-> TRUE, name |-> name, kind |-> kind, namespace |-> namespace ]
NoSpecChartRef ==
    [ present |-> FALSE, name |-> Missing, kind |-> Missing, namespace |-> Missing ]

\* spec.chart of a HelmRelease: a mapping holding spec.version, or no chart.
SpecChart(version) == [ present |-> TRUE, version |-> version ]
NoSpecChart == [ present |-> FALSE, version |-> Missing ]

\* spec of a ResourceData of the YAMLScanner: spec.chartRef, spec.chart
\* (its spec.version), spec.ref.tag and spec.url.
ResourceSpec(chartRef, chart, tag, url) ==
    [ chartRef |-> chartRef, chart |-> chart, tag |-> tag, url |-> url ]

\* A ResourceData of the YAMLScanner, which carries the spec of its document.
ScannedResource(api_version, kind, name, namespace, file_hash, spec) ==
    [ api_version |-> api_version, kind |-> kind, name |-> name,
      namespace |-> namespace, file_hash |-> file_hash, spec |-> spec ]

\* KubernetesResourceMetrics: the fields the extractor fills for Flux kinds.
KubernetesResourceMetrics(chart_name, chart_version, chart_repository, source_revision) ==
    [ chart_name |-> chart_name, chart_version |-> chart_version,
      chart_repository |-> chart_repository, source_revision |-> source_revision ]

\* ResourceExtractor.extract_resource_metrics: a chartRef leaves the version
\* to the later resolution; a chart carries its own version; an OCIRepository
\* gives its tag and its url.
ResourceExtractor_extract_resource_metrics(resource_data) ==
    LET spec == resource_data.spec IN
    CASE resource_data.kind = "HelmRelease" /\ spec.chartRef.present ->
           KubernetesResourceMetrics(Get(spec.chartRef.name, None), None, None,
                                     Get(spec.chartRef.name, None))
      [] resource_data.kind = "HelmRelease" /\ ~spec.chartRef.present
           /\ spec.chart.present ->
           KubernetesResourceMetrics(None, Get(spec.chart.version, None), None, None)
      [] resource_data.kind = "OCIRepository" ->
           KubernetesResourceMetrics(None, Get(spec.tag, None), Get(spec.url, None), None)
      [] OTHER -> KubernetesResourceMetrics(None, None, None, None)

\* The key resolve_cross_resource_versions looks the referenced resource up by.
target_key(resource_data) ==
    LET chart_ref == resource_data.spec.chartRef
        target_name == Get(chart_ref.name, None)
        target_kind == Get(chart_ref.kind, "OCIRepository")
        target_namespace == Get(chart_ref.namespace, resource_data.namespace)
        namespace_part == IF Truthy(target_namespace) THEN target_namespace \o ":" ELSE ""
    IN _get_api_version_for_kind(target_kind) \o ":" \o target_kind \o ":"
         \o namespace_part \o target_name

\* The copy resolve_cross_resource_versions makes: no version, no copy.
CopyVersion(own, target_metrics) ==
    IF Truthy(target_metrics.chart_version)
    THEN [ own EXCEPT !.chart_version = target_metrics.chart_version,
                      !.chart_repository =
                          IF Truthy(target_metrics.chart_repository) /\ ~Truthy(@)
                          THEN target_metrics.chart_repository ELSE @ ]
    ELSE own

\* ResourceExtractor.resolve_cross_resource_versions: the metrics_map it
\* leaves. Both dicts are keyed by resource_key; the referenced resource is
\* looked up in the two dicts it is given and nowhere else.
resolve_cross_resource_versions(resources_, metrics_map) ==
    [ key \in DOMAIN metrics_map |->
        IF /\ key \in DOMAIN resources_
           /\ resources_[key].kind = "HelmRelease"
           /\ resources_[key].spec.chartRef.present
           /\ ~Truthy(metrics_map[key].chart_version)
           /\ target_key(resources_[key]) \in DOMAIN resources_
           /\ target_key(resources_[key]) \in DOMAIN metrics_map
        THEN CopyVersion(metrics_map[key], metrics_map[target_key(resources_[key])])
        ELSE metrics_map[key] ]

\* The keys of the created and the modified changes of detect_changes:
\* current maps the key of each ACTIVE row to its file_hash.
ChangedKeys(current, filesystem) ==
    { key \in DOMAIN filesystem :
        \/ key \notin DOMAIN current
        \/ current[key] # filesystem[key].file_hash }

\* The metrics records _update_resources adds to the session and commits:
\* one for each created or modified resource, resolved against each other.
UpdateResourcesMetrics(current, filesystem) ==
    LET all_resources == [ key \in ChangedKeys(current, filesystem) |-> filesystem[key] ]
        metrics_map == [ key \in ChangedKeys(current, filesystem) |->
                           ResourceExtractor_extract_resource_metrics(filesystem[key]) ]
    IN IF DOMAIN all_resources # {} /\ DOMAIN metrics_map # {}
       THEN resolve_cross_resource_versions(all_resources, metrics_map)
       ELSE metrics_map

\* ------------------------------------------------------------------ the workers

\* Tasks sent from outside the workers: by the administrator and by the beat.
MaxTriggers == 1

\* A task message: the task, its arguments and request.retries.
TaskMessage(name, repository_id, stats, retries) ==
    [ task |-> name, repository_id |-> repository_id, stats |-> stats, retries |-> retries,
      countdown |-> 0 ]

\* The worker process that has received a message and has not run a step.
Started(message) ==
    [ Idle(<<>>) EXCEPT !.task = message.task, !.pc = "start",
                        !.repository_id = message.repository_id,
                        !.stats = message.stats, !.retries = message.retries ]

\* What a task returns, or how it ends when it raises; cleaned is the
\* count the cleanup reports.
Result(status, cleaned) == << [ status |-> status, cleaned |-> cleaned ] >>

\* A worker process receives one of the messages that wait at the broker.
receive(w) ==
    /\ workers[w].task = "idle"
    /\ \E i \in 1..Len(broker) :
         /\ workers' = [ workers EXCEPT ![w] = Started(broker[i]) ]
         /\ broker' = SubSeq(broker, 1, i - 1) \o SubSeq(broker, i + 1, Len(broker))
    /\ UNCHANGED <<resources, events, scans, committed, last, metrics, references,
                   pending, repository, task, input, output, workdirs, triggers>>

\* The worker w is at step pc of the task name.
At(w, name, pc) == workers[w].task = name /\ workers[w].pc = pc

\* The frame of a step of the sync task.
SyncFrame ==
    UNCHANGED <<resources, events, scans, committed, last, metrics, references,
                pending, task, input, output, triggers>>

\* str(error) of what the database or the broker raises in a worker.
WorkerErrors == { Message("connection lost", 15) }

\* str(error) of what git raises.
GitErrors == { Message("Cmd('git') failed due to: exit code(128)", 2500) }

\* An update that writes every character of the message to sync_error.
update_repository_status_unbounded(row, status, error, now) ==
    [ row EXCEPT !.sync_status = status,
                 !.sync_error = error,
                 !.last_sync_at = IF status = "success" THEN <<now>> ELSE @ ]

\* update_repository_status: the row it commits; error is <<>> for None.
update_repository_status(row, status, error, now) ==
    [ row EXCEPT !.sync_status = status,
                 !.sync_error = IF error # <<>> /\ error[1].length > 0
                                THEN <<Slice(error[1], ErrorLimit)>> ELSE <<>>,
                 !.last_sync_at = IF status = "success" THEN <<now>> ELSE @ ]

\* The worker goes on to step pc, or to the error handler with error.
Goto(w, pc) == workers' = [ workers EXCEPT ![w].pc = pc ]
Raise(w, error) == workers' = [ workers EXCEPT ![w].pc = "error", ![w].error = <<error>> ]
Return(w, status) == workers' = [ workers EXCEPT ![w] = Idle(Result(status, 0)) ]

\* sync_repository up to its first commit: a BLOCKED or PENDING_APPROVAL
\* repository is skipped, after save_repository_metrics.delay when the sync
\* was sent with stats (the metrics task is not followed; sending it may
\* raise); any other repository is set to SYNCING.
sync_repository_start(w) ==
    /\ At(w, "sync_repository", "start")
    /\ \E r \in {workers[w].repository_id} :
         IF repository[r].sync_status \in {"blocked", "pending_approval"}
         THEN /\ \/ Return(w, "skipped")
                 \/ /\ Truthy(workers[w].stats)
                    /\ \E error \in WorkerErrors : Raise(w, error)
              /\ UNCHANGED repository
         ELSE \/ /\ repository' = [ repository EXCEPT ![r] =
                      update_repository_status(@, "syncing", <<>>, triggers) ]
                 /\ Goto(w, "syncing")
              \/ /\ \E error \in WorkerErrors : Raise(w, error)
                 /\ UNCHANGED repository
    /\ UNCHANGED <<broker, workdirs>>
    /\ SyncFrame

\* prepare_working_directory: mkdir(parents=True, exist_ok=True).
prepare_working_directory(w) ==
    /\ At(w, "sync_repository", "syncing")
    /\ workdirs' = [ workdirs EXCEPT ![workers[w].repository_id] =
                       IF @ = "absent" THEN "empty" ELSE @ ]
    /\ Goto(w, "prepared")
    /\ UNCHANGED <<broker, repository>>
    /\ SyncFrame

\* sync_git_repository: a clone into the directory, or a fetch and reset of
\* the checkout it holds; or git raises.
sync_git_repository(w) ==
    /\ At(w, "sync_repository", "prepared")
    /\ \/ /\ workdirs' = [ workdirs EXCEPT ![workers[w].repository_id] = "checkout" ]
          /\ Goto(w, "synced")
       \/ /\ \E error \in GitErrors : Raise(w, error)
          /\ UNCHANGED workdirs
    /\ UNCHANGED <<broker, repository>>
    /\ SyncFrame

\* repository.working_directory_path = str(repo_workdir), then
\* update_repository_status(SUCCESS), which commits both.
sync_repository_commit(w) ==
    /\ At(w, "sync_repository", "synced")
    /\ \E r \in {workers[w].repository_id} :
         \/ /\ repository' = [ repository EXCEPT ![r] =
                 update_repository_status([ @ EXCEPT !.working_directory_path = r ],
                                          "success", <<>>, triggers) ]
            /\ Goto(w, "committed")
         \/ /\ \E error \in WorkerErrors : Raise(w, error)
            /\ UNCHANGED repository
    /\ UNCHANGED <<broker, workdirs>>
    /\ SyncFrame

\* scan_repository.delay(str(repository.id), repo_stats), then the return.
sync_repository_delay(w) ==
    /\ At(w, "sync_repository", "committed")
    /\ \/ /\ broker' = Append(broker, TaskMessage("scan_repository",
                                  workers[w].repository_id, workers[w].stats, 0))
          /\ Return(w, "success")
       \/ /\ \E error \in WorkerErrors : Raise(w, error)
          /\ UNCHANGED broker
    /\ UNCHANGED <<repository, workdirs>>
    /\ SyncFrame

\* A retry sent on every failure, whatever request.retries is.
retry_unlimited(w) ==
    /\ broker' = Append(broker, [ TaskMessage(workers[w].task, workers[w].repository_id,
                                               workers[w].stats, workers[w].retries + 1)
                                   EXCEPT !.countdown = 60 * (2 ^ workers[w].retries) ])
    /\ Return(w, "retry")

\* task_self.retry(countdown = 60 * 2 ** request.retries, max_retries=3, exc):
\* the task is sent again with one more retry, to run after the countdown,
\* or exc is raised when the retries are used up.
retry(w) ==
    IF workers[w].retries < MaxRetries
    THEN /\ broker' = Append(broker, [ TaskMessage(workers[w].task, workers[w].repository_id,
                                                    workers[w].stats, workers[w].retries + 1)
                                        EXCEPT !.countdown = 60 * (2 ^ workers[w].retries) ])
         /\ Return(w, "retry")
    ELSE /\ UNCHANGED broker
         /\ Return(w, "failed")

\* handle_sync_error: the ERROR status is committed, or that commit raises
\* and is logged; then the retry.
handle_sync_error(w) ==
    /\ At(w, "sync_repository", "error")
    /\ \/ repository' = [ repository EXCEPT ![workers[w].repository_id] =
               update_repository_status(@, "error", workers[w].error, triggers) ]
       \/ UNCHANGED repository
    /\ retry(w)
    /\ UNCHANGED workdirs
    /\ SyncFrame

\* POST /repositories/{id}/sync
trigger_repository_sync_single(repository_id) ==
    /\ triggers < MaxTriggers
    /\ triggers' = triggers + 1
    /\ broker' = Append(broker, TaskMessage("sync_repository", repository_id, None, 0))
    /\ UNCHANGED <<resources, events, scans, committed, last, metrics, references,
                   pending, repository, task, input, output, workers, workdirs>>

\* POST /repositories/{id}/block
block_repository(repository_id) ==
    /\ repository' = [ repository EXCEPT ![repository_id] =
         [ @ EXCEPT !.sync_status = "blocked",
                    !.sync_error = <<Message("Repository blocked by administrator", 35)>> ] ]
    /\ UNCHANGED <<resources, events, scans, committed, last, metrics, references,
                   pending, task, input, output, celery>>

\* POST /repositories/{id}/approve
approve_repository(repository_id) ==
    /\ repository[repository_id].sync_status \in {"blocked", "pending_approval"}
    /\ repository' = [ repository EXCEPT ![repository_id] =
         [ @ EXCEPT !.sync_status = "pending", !.sync_error = <<>> ] ]
    /\ UNCHANGED <<resources, events, scans, committed, last, metrics, references,
                   pending, task, input, output, celery>>

\* discover_repositories on a repository it has found again, larger than
\* GITHUB_MAX_REPOSITORY_SIZE_MB: PENDING_APPROVAL unless it is BLOCKED or
\* PENDING_APPROVAL already (a smaller repository is left as it is).
check_repository_size_and_update_status(repository_id) ==
    /\ repository[repository_id].sync_status \notin {"blocked", "pending_approval"}
    /\ repository' = [ repository EXCEPT ![repository_id] =
         [ @ EXCEPT !.sync_status = "pending_approval",
                    !.sync_error = <<Message("Repository size exceeds the threshold", 80)>> ] ]
    /\ UNCHANGED <<resources, events, scans, committed, last, metrics, references,
                   pending, task, input, output, celery>>

\* The frame of a step of the scan task that writes no resource.
ScanFrame ==
    UNCHANGED <<resources, events, scans, committed, last, metrics, references,
                pending, task, input, output, workdirs, triggers>>

\* repository.working_directory_path as validate_working_directory finds it.
WorkingDirectory(working_directory_path) ==
    IF ~Truthy(working_directory_path) THEN None
    ELSE IF workdirs[working_directory_path] = "absent" THEN "missing" ELSE "present"

\* scan_repository up to its first commit: get_repository_by_id,
\* validate_working_directory, update_scan_status(SYNCING).
scan_repository_start(w) ==
    /\ At(w, "scan_repository", "start")
    /\ \E r \in {workers[w].repository_id} :
       \E invalid \in {validate_working_directory(
                          WorkingDirectory(repository[r].working_directory_path))} :
         IF invalid # <<>>
         THEN /\ Raise(w, invalid[1])
              /\ UNCHANGED repository
         ELSE \/ /\ repository' = [ repository EXCEPT ![r] =
                      update_scan_status(@, "syncing", <<>>, scans + 1) ]
                 /\ Goto(w, "scanning")
              \/ /\ \E error \in WorkerErrors : Raise(w, error)
                 /\ UNCHANGED repository
    /\ UNCHANGED broker
    /\ ScanFrame

\* What scan_directory returns for a working directory: the one document of
\* a checkout, nothing for a directory that is empty or gone.
WorkdirResources(content) ==
    IF content = "checkout" THEN <<ScannedLists1>> ELSE <<>>

\* perform_yaml_scan up to the end of get_existing_resources: the scanned
\* list and the map of the ACTIVE rows, as the session holds them from now on.
scan_repository_load(w) ==
    /\ At(w, "scan_repository", "scanning")
    /\ \E r \in {workers[w].repository_id} :
       \E query \in Orders(ActiveIds(resources, r)) :
         workers' = [ workers EXCEPT
                        ![w].pc = "loaded",
                        ![w].scanned = WorkdirResources(
                                          workdirs[repository[r].working_directory_path]),
                        ![w].existing = get_existing_resources(resources, query),
                        ![w].rows = resources ]
    /\ UNCHANGED <<broker, repository>>
    /\ ScanFrame

\* The rows as the session of worker w sees them: a row it loaded keeps the
\* attributes it was loaded with, any other row is read when it is queried.
SessionRows(w) ==
    [ i \in Ids(resources) |->
        IF i \in { workers[w].existing[k][2] : k \in 1..Len(workers[w].existing) }
        THEN workers[w].rows[i] ELSE resources[i] ]

\* The ScanResult apply_scan_results returns to worker w.
WorkerScanResult(w, changeset) ==
    ScanResult(Len(changeset.created), Len(changeset.modified), Len(changeset.deleted),
               Len(workers[w].existing) + Len(changeset.created) - Len(changeset.deleted),
               uuid4)

\* The rest of apply_scan_results: compare_resources on the map loaded
\* before, the three loops, the commit; a unique violation rolls back.
scan_repository_commit(w) ==
    /\ At(w, "scan_repository", "loaded")
    /\ \E r \in {workers[w].repository_id} :
       \E scanned \in {workers[w].scanned} :
       \E found \in [ 1..Len(scanned) -> Ids(resources) \cup {Null} ] :
         /\ \A i \in 1..Len(scanned) :
               found[i] \in get_deleted_resource(resources, r, scanned[i])
         /\ \E changeset \in {compare_resources(workers[w].existing, scanned,
                                                SessionRows(w), found)} :
            \E s \in {ApplyChanges(Session(resources, events), r, AllChanges(changeset),
                                   uuid4, scans + 1)} :
              /\ scans' = scans + 1
              /\ IF UniqueViolation(s.rows)
                 THEN /\ \E error \in WorkerErrors : Raise(w, error)
                      /\ last' = [ repository_id |-> r, outcome |-> "error",
                                   unchanged |-> FALSE, existing |-> <<>>,
                                   changeset |-> EmptyChangeSet,
                                   computed |-> ChangeCount(changeset), result |-> NoResult ]
                      /\ UNCHANGED <<resources, events, committed>>
                 ELSE /\ resources' = s.rows
                      /\ events' = s.evs
                      /\ committed' = [ committed EXCEPT ![r] =
                                          [ done |-> TRUE, scanned |-> scanned ] ]
                      /\ last' = [ repository_id |-> r, outcome |-> "ok",
                                   unchanged |-> /\ committed[r].done
                                                 /\ committed[r].scanned = scanned,
                                   existing |-> workers[w].existing,
                                   changeset |-> changeset,
                                   computed |-> ChangeCount(changeset),
                                   result |-> WorkerScanResult(w, changeset) ]
                      /\ workers' = [ workers EXCEPT
                                        ![w].pc = "applied",
                                        ![w].scan_result = <<WorkerScanResult(w, changeset)>> ]
    /\ UNCHANGED <<metrics, references, pending, repository, task, input, output,
                   broker, workdirs, triggers>>

\* repository.last_scan_total_resources = total, update_scan_status(SUCCESS),
\* trigger_metrics_task, and the return.
scan_repository_success(w) ==
    /\ At(w, "scan_repository", "applied")
    /\ \E r \in {workers[w].repository_id} :
         \/ /\ repository' = [ repository EXCEPT ![r] =
                 update_scan_status(
                     [ @ EXCEPT !.last_scan_total_resources =
                                    <<workers[w].scan_result[1].total_resources>> ],
                     "success", <<>>, scans + 1) ]
            /\ Return(w, "success")
         \/ /\ \E error \in WorkerErrors : Raise(w, error)
            /\ UNCHANGED repository
    /\ UNCHANGED broker
    /\ ScanFrame

\* handle_scan_error of a worker: the ERROR status is committed, or that
\* commit raises and is logged; then the retry.
scan_repository_error(w) ==
    /\ At(w, "scan_repository", "error")
    /\ \/ repository' = [ repository EXCEPT ![workers[w].repository_id] =
               update_scan_status(@, "error", workers[w].error, scans + 1) ]
       \/ UNCHANGED repository
    /\ retry(w)
    /\ ScanFrame

\* The frame of a step of the cleanup task.
CleanupFrame ==
    UNCHANGED <<resources, events, scans, committed, last, metrics, references,
                pending, repository, task, input, output, broker, triggers>>

\* get_active_repository_ids: the ids of the repositories that are neither
\* BLOCKED nor PENDING_APPROVAL.
get_active_repository_ids ==
    { r \in Repositories : repository[r].sync_status \notin {"blocked", "pending_approval"} }

\* The active ids the cleanup of worker w decides by: read once, at its start.
ActiveIdsRead(w) == workers[w].active_repo_ids

\* cleanup_repository_workdirs up to its loop: nothing to do when the base
\* directory does not exist, else the active ids are read.
cleanup_repository_workdirs_start(w) ==
    /\ At(w, "cleanup_repository_workdirs", "start")
    /\ IF \A d \in Directories : workdirs[d] = "absent"
       THEN Return(w, "Work directory does not exist")
       ELSE workers' = [ workers EXCEPT
                         ![w].pc = "iterating",
                         ![w].active_repo_ids = get_active_repository_ids,
                         ![w].items = { d \in Directories : workdirs[d] # "absent" } ]
    /\ UNCHANGED workdirs
    /\ CleanupFrame

\* One iteration of the loop over workdir_base.iterdir(), whose entries were
\* listed when the loop began: an entry that is a directory and whose name
\* is not an active id is removed and counted, or its removal fails and is
\* logged; after the last entry the count is returned.
cleanup_orphaned_directory(w) ==
    /\ At(w, "cleanup_repository_workdirs", "iterating")
    /\ IF workers[w].items = {}
       THEN /\ workers' = [ workers EXCEPT ![w] =
                              Idle(Result("Cleaned up", workers[w].cleaned_count)) ]
            /\ UNCHANGED workdirs
       ELSE \E item \in workers[w].items :
              IF workdirs[item] = "absent" \/ item \in ActiveIdsRead(w)
              THEN /\ workers' = [ workers EXCEPT ![w].items = @ \ {item} ]
                   /\ UNCHANGED workdirs
              ELSE \/ /\ workdirs' = [ workdirs EXCEPT ![item] = "absent" ]
                      /\ workers' = [ workers EXCEPT ![w].items = @ \ {item},
                                                     ![w].cleaned_count = @ + 1 ]
                   \/ /\ UNCHANGED workdirs
                      /\ workers' = [ workers EXCEPT ![w].items = @ \ {item} ]
    /\ CleanupFrame

\* The beat schedule sends cleanup-repository-workdirs.
cleanup_beat ==
    /\ triggers < MaxTriggers
    /\ triggers' = triggers + 1
    /\ broker' = Append(broker, TaskMessage("cleanup_repository_workdirs", None, None, 0))
    /\ UNCHANGED <<resources, events, scans, committed, last, metrics, references,
                   pending, repository, task, input, output, workers, workdirs>>

\* The state the discovery leaves for a new repository: its row, PENDING or
\* PENDING_APPROVAL by its size, and the sync task sent with its stats; the
\* disk may hold the directory of a repository that was deleted.
WorkerInit ==
    /\ EmptyResourceTables
    /\ \E status \in {"pending", "pending_approval"} :
         repository = [ r \in Repositories |->
                          IF r \in TaskRepositories
                          THEN [ NewRepository EXCEPT
                                   !.sync_status = status,
                                   !.sync_error =
                                       IF status = "pending_approval"
                                       THEN <<Message("Repository size exceeds the threshold", 80)>>
                                       ELSE <<>> ]
                          ELSE NewRepository ]
    /\ broker = << TaskMessage("sync_repository", "repoA", "stats", 0) >>
    /\ workers = [ w \in Workers |-> Idle(<<>>) ]
    /\ workdirs \in [ Directories -> {"absent", "checkout"} ]
    /\ workdirs["repoA"] = "absent"
    /\ triggers = 0
    /\ input = <<>>
    /\ output = <<>>

WorkerStep(w) ==
    \/ receive(w)
    \/ sync_repository_start(w)
    \/ prepare_working_directory(w)
    \/ sync_git_repository(w)
    \/ sync_repository_commit(w)
    \/ sync_repository_delay(w)
    \/ handle_sync_error(w)
    \/ scan_repository_start(w)
    \/ scan_repository_load(w)
    \/ scan_repository_commit(w)
    \/ scan_repository_success(w)
    \/ scan_repository_error(w)
    \/ cleanup_repository_workdirs_start(w)
    \/ cleanup_orphaned_directory(w)

WorkerNext ==
    \/ \E w \in Workers : WorkerStep(w)
    \/ \E r \in TaskRepositories : trigger_repository_sync_single(r)
    \/ \E r \in TaskRepositories : block_repository(r)
    \/ \E r \in TaskRepositories : approve_repository(r)
    \/ \E r \in TaskRepositories : check_repository_size_and_update_status(r)
    \/ cleanup_beat

WorkerSpec == WorkerInit /\ [][WorkerNext]_vars

\* ------------------------------------------------------------------ functions applied alone

\* The ResourceData objects resource_key is applied to: the object of the
\* repository's own test, with each field varied.
KeyInputs ==
    { [ api_version |-> "v1", kind |-> k, name |-> n, namespace |-> ns,
        file_path |-> fp, file_hash |-> "abc123" ] :
      k \in {"Pod", "Service"}, n \in {"mypod", "default:mypod"},
      ns \in {None, "default"}, fp \in {"foo/bar.yaml", "baz.yaml"} }

KeyInit ==
    /\ EmptyDatabase
    /\ input \in KeyInputs \X KeyInputs
    /\ output = <<>>

\* ResourceData.resource_key() of two objects, and YAMLScanner._resource_key
\* of the rows holding the same fields.
ResourceKeyCall ==
    /\ output = <<>>
    /\ output' = [ data |-> <<resource_key(input[1]), resource_key(input[2])>>,
                   row |-> <<_resource_key(input[1]), _resource_key(input[2])>> ]
    /\ UNCHANGED <<tables, input>>

KeyNext == ResourceKeyCall

KeySpec == KeyInit /\ [][KeyNext]_vars

\* What a file of the checkout may hold: up to two documents, or text that
\* does not parse although it holds a document.
FileContents ==
    { [ error |-> None, documents |-> d ] :
        d \in {<<>>} \cup { <<a>> : a \in Docs } \cup { <<a, b>> : a, b \in Docs } }
    \cup { [ error |-> e, documents |-> <<OCIRepository("grafana", "9.2.1")>> ] :
             e \in {"YAMLError", "UnicodeDecodeError"} }

\* The checkouts scan_directory is applied to: hr.yaml and oci.yaml.
ScanInputs ==
    { << File("hr.yaml", a.error, a.documents), File("oci.yaml", b.error, b.documents) >> :
        a, b \in FileContents }

ScanInit ==
    /\ EmptyDatabase
    /\ input \in ScanInputs
    /\ output = <<>>

ScanDirectoryCall ==
    /\ output = <<>>
    /\ output' = scan_directory(input)
    /\ UNCHANGED <<tables, input>>

ScanNext == ScanDirectoryCall

ScanSpec == ScanInit /\ [][ScanNext]_vars

\* The resources of a scanned set: a HelmRelease grafana and an OCIRepository
\* grafana, each in one of two namespaces and with one of two contents.
Namespaces == {None, "monitoring"}
GrafanaUrl == "oci://ghcr.io/grafana/helm-charts/grafana"

HelmReleaseSpecs ==
    { ResourceSpec(SpecChartRef("grafana", k, ns), NoSpecChart, Missing, Missing) :
        k \in {Missing, "OCIRepository"}, ns \in {Missing, "monitoring"} }
    \cup { ResourceSpec(NoSpecChartRef, SpecChart("8.0.0"), Missing, Missing) }
OCIRepositorySpecs ==
    { ResourceSpec(NoSpecChartRef, NoSpecChart, t, u) :
        t \in {"9.2.1", "9.3.0"}, u \in {GrafanaUrl, Missing} }

ScannedHelmReleases ==
    { ScannedResource("helm.toolkit.fluxcd.io/v2", "HelmRelease", "grafana", ns, h, sp) :
        ns \in Namespaces, h \in FileHashes, sp \in HelmReleaseSpecs }
ScannedOCIRepositories ==
    { ScannedResource("source.toolkit.fluxcd.io/v1", "OCIRepository", "grafana", ns, h, sp) :
        ns \in Namespaces, h \in FileHashes, sp \in OCIRepositorySpecs }

\* The dict of a set of resources, keyed by resource_key.
KeyedBy(set) ==
    [ key \in { resource_key(r) : r \in set } |->
        CHOOSE r \in set : resource_key(r) = key ]

\* A scan as _update_resources meets it: the file_hash of each ACTIVE row by
\* key, and the scanned set.
MetricsInputs ==
    { [ current |-> c, filesystem |-> KeyedBy(fs) ] :
        fs \in { {a, b} : a \in ScannedHelmReleases, b \in ScannedOCIRepositories }
               \cup { {a} : a \in ScannedHelmReleases },
        c \in UNION { [ keys -> FileHashes ] :
                        keys \in SUBSET { resource_key(r) :
                                            r \in ScannedHelmReleases \cup ScannedOCIRepositories } } }

MetricsInit ==
    /\ EmptyDatabase
    /\ input \in MetricsInputs
    /\ output = <<>>

UpdateResourcesCall ==
    /\ output = <<>>
    /\ output' = [ metrics |-> UpdateResourcesMetrics(input.current, input.filesystem) ]
    /\ UNCHANGED <<tables, input>>

MetricsNext == UpdateResourcesCall

MetricsSpec == MetricsInit /\ [][MetricsNext]_vars

\* ------------------------------------------------------------------ versions of HelmReleases

\* A HelmRelease with a literal spec.chart.spec.version.
HelmReleaseOfVersion(name, chartRef, version) ==
    Document("helm.toolkit.fluxcd.io/v2", "HelmRelease", name,
             DocumentSpec(None, chartRef, version))

\* The documents of hr.yaml: HelmReleases with a chartRef and no version,
\* with a chartRef and a version, with a version alone, with neither, and
\* one whose chartRef names a chart no OCIRepository has.
VersionHelmReleases ==
    { HelmRelease("grafana", ChartRef("map", "grafana")),
      HelmRelease("loki", ChartRef("map", "loki")),
      HelmRelease("bare", NoChartRef),
      HelmReleaseOfVersion("grafana", ChartRef("map", "grafana"), "8.0.0"),
      HelmReleaseOfVersion("grafana", NoChartRef, "8.0.0") }

\* The documents of oci.yaml: OCIRepositories grafana and tempo, an
\* OCIRepository without spec.ref.tag, and a resource of no Flux kind.
VersionSources ==
    { OCIRepository("grafana", "9.2.1"), OCIRepository("grafana", "9.3.0"),
      OCIRepository("tempo", "1.0.0"), OCIRepository("grafana", None),
      ConfigMap("settings") }

VersionInputs ==
    { << File("hr.yaml", None, hr), File("oci.yaml", None, oci) >> :
        hr \in {<<>>} \cup { <<a>> : a \in VersionHelmReleases }
                 \cup { <<a, b>> : a, b \in VersionHelmReleases },
        oci \in {<<>>} \cup { <<a>> : a \in VersionSources }
                  \cup { <<a, b>> : a, b \in VersionSources } }

VersionInit ==
    /\ EmptyDatabase
    /\ input \in VersionInputs
    /\ output = <<>>

\* scan_directory on the checkout: the files are parsed, then post_process.
VersionScanCall ==
    /\ output = <<>>
    /\ output' = scan_directory(input)
    /\ UNCHANGED <<tables, input>>

VersionNext == VersionScanCall

VersionSpec == VersionInit /\ [][VersionNext]_vars

\* ------------------------------------------------------------------ namespaces of Kustomizations

\* A path is the sequence of its parts. Path(p).parent, and
\* Path(p).is_relative_to(other): other is p or one of its parents.
Parent(file_path) == SubSeq(file_path, 1, Len(file_path) - 1)
is_relative_to(file_path, other) ==
    /\ Len(other) <= Len(file_path)
    /\ SubSeq(file_path, 1, Len(other)) = other

\* A located document of a Flux kind: its file, metadata.namespace, and
\* spec.targetNamespace (None when the key is not there).
FluxDocument(api_version, kind, name, file_path, namespace, targetNamespace) ==
    [ api_version |-> api_version, kind |-> kind, name |-> name,
      file_path |-> file_path, namespace |-> namespace,
      targetNamespace |-> targetNamespace ]

\* ResourceData.data: the empty dict, or a dict that holds targetNamespace.
EmptyData == [ keys |-> {}, targetNamespace |-> None ]
TargetNamespaceData(targetNamespace) ==
    [ keys |-> {"targetNamespace"}, targetNamespace |-> targetNamespace ]

\* ResourceData(api_version, kind, file_path, file_hash, name, namespace, data).
FluxResourceData(document, data) ==
    [ api_version |-> document.api_version, kind |-> document.kind,
      name |-> document.name, namespace |-> document.namespace,
      file_path |-> document.file_path, data |-> data ]

\* KustomizationResourceScanner.extract_additional_data returns {}; the other
\* scanners return the spec, which is empty or not and holds no
\* targetNamespace that post_process reads.
flux_parse_document(document) ==
    FluxResourceData(document, EmptyData)

\* The ResourceData built with data = {"targetNamespace": ...} when the
\* document has the key, as the tests build it.
ResourceDataWithSpec(document) ==
    FluxResourceData(document,
                 IF document.kind = "Kustomization" /\ document.targetNamespace # None
                 THEN TargetNamespaceData(document.targetNamespace)
                 ELSE EmptyData)

IsKustomization(resource) ==
    /\ resource.api_version = "kustomize.toolkit.fluxcd.io/v1"
    /\ resource.kind = "Kustomization"

\* path_ns_map after the first loop of post_process: the Kustomizations with
\* truthy data, keyed by the parent of their file, in insertion order.
path_ns_map(resources_) ==
    LET idx == { i \in 1..Len(resources_) :
                   IsKustomization(resources_[i]) /\ resources_[i].data.keys # {} }
        of == SelectIdx([ i \in 1..Len(resources_) |-> i ], idx)
    IN Dict([ n \in 1..Len(of) |->
                << Parent(resources_[of[n]].file_path),
                   resources_[of[n]].data.targetNamespace >> ])

\* The namespace the second loop of post_process leaves on a resource: that
\* of the first item of path_ns_map its file is relative to.
inherited_namespace(resource, map) ==
    LET hits == { n \in 1..Len(map) : is_relative_to(resource.file_path, map[n][1]) }
    IN IF resource.namespace # None \/ hits = {} THEN resource.namespace
       ELSE map[CHOOSE n \in hits : \A m \in hits : n <= m][2]

\* FluxResourceScanner.post_process, lines 61-84: the namespaces.
post_process_namespaces(resources_) ==
    [ i \in 1..Len(resources_) |->
        [ resources_[i] EXCEPT !.namespace =
            inherited_namespace(resources_[i], path_ns_map(resources_)) ] ]

\* The documents of a checkout: Kustomizations in ./, apps/ and
\* apps/grafana/, with or without a targetNamespace, and a HelmRelease under
\* apps/grafana/ or under other/, with or without a namespace of its own.
MaxDocuments == 3
KustomizationDirs == { <<>>, <<"apps">>, <<"apps", "grafana">> }
KustomizationDocuments ==
    { FluxDocument("kustomize.toolkit.fluxcd.io/v1", "Kustomization", "ks",
                   d \o <<"ks.yaml">>, "flux-system", t) :
        d \in KustomizationDirs, t \in {None, "ns1", "ns2"} }
HelmReleaseDocuments ==
    { FluxDocument("helm.toolkit.fluxcd.io/v2", "HelmRelease", "grafana",
                   <<"apps", "grafana", "hr.yaml">>, ns, None) : ns \in {None, "monitoring"} }
    \cup { FluxDocument("helm.toolkit.fluxcd.io/v2", "HelmRelease", "grafana",
                        <<"other", "hr.yaml">>, None, None) }
NamespaceInputs ==
    { [ documents |-> ds, parsed |-> p ] :
        ds \in { s \in UNION { [ 1..n -> KustomizationDocuments \cup HelmReleaseDocuments ] :
                                 n \in 1..MaxDocuments } :
                   \A i, j \in 1..Len(s) : i # j => s[i].file_path # s[j].file_path },
        p \in BOOLEAN }

NamespaceInit ==
    /\ EmptyDatabase
    /\ input \in NamespaceInputs
    /\ output = <<>>

\* post_process on the resources parsed from the documents, or on resources
\* built with the spec as their data.
post_process_call ==
    /\ output = <<>>
    /\ output' = [ resources |->
                     post_process_namespaces(
                        [ i \in 1..Len(input.documents) |->
                            IF input.parsed THEN flux_parse_document(input.documents[i])
                            ELSE ResourceDataWithSpec(input.documents[i]) ]) ]
    /\ UNCHANGED <<tables, input>>

NamespaceNext == post_process_call

NamespaceSpec == NamespaceInit /\ [][NamespaceNext]_vars

\* ------------------------------------------------------------------ changed paths

\* A dict is the set of its items <<key, value>>; a value is a leaf or a dict.
Leaf(v) == [ isdict |-> FALSE, leaf |-> v, items |-> {} ]
DictValue(items) == [ isdict |-> TRUE, leaf |-> None, items |-> items ]
Keys(d) == { it[1] : it \in d }
Item(d, key) == (CHOOSE it \in d : it[1] = key)[2]

\* compare_nested of analyze_detailed_changes. The list is appended to in
\* the iteration order of a set of keys, so it is kept as the set of its
\* entries.
RECURSIVE compare_nested(_, _, _)
compare_nested(old_dict, new_dict, path) ==
    UNION { LET current_path == path \o "." \o key
            IN IF key \notin Keys(old_dict) THEN { current_path \o " (added)" }
               ELSE IF key \notin Keys(new_dict) THEN { current_path \o " (removed)" }
               ELSE IF Item(old_dict, key) # Item(new_dict, key)
                    THEN IF Item(old_dict, key).isdict /\ Item(new_dict, key).isdict
                         THEN compare_nested(Item(old_dict, key).items,
                                             Item(new_dict, key).items, current_path)
                         ELSE { current_path }
                    ELSE {} :
            key \in Keys(old_dict) \cup Keys(new_dict) }

analyze_detailed_changes(old_spec, new_spec) == compare_nested(old_spec, new_spec, "spec")

\* OciRepositoryResourceScanner.parse_document: version is spec.ref.tag.
VersionOfBody(body) ==
    IF "ref" \in Keys(body) /\ "tag" \in Keys(Item(body, "ref").items)
    THEN Item(Item(body, "ref").items, "tag").leaf ELSE None

\* changes_detected of _update_resource, for a resource that stays in its
\* file: the hash is that of str(document), which differs when the body does.
changes_detected(old_body, new_body) ==
    (IF old_body # new_body THEN {"file_content"} ELSE {})
    \cup (IF VersionOfBody(old_body) # VersionOfBody(new_body) THEN {"version"} ELSE {})

\* The bodies of an OCIRepository: url, ref (a dict of tag and branch) and
\* verify (a string, or a dict of provider), each there or not.
SubDicts(choices) ==
    { d \in SUBSET choices : \A a, b \in d : a[1] = b[1] => a = b }
RefValues ==
    { DictValue(d) : d \in SubDicts({ <<"tag", Leaf("9.2.1")>>, <<"tag", Leaf("9.3.0")>>,
                                     <<"branch", Leaf("main")>> }) }
VerifyValues == { Leaf("cosign"), DictValue({ <<"provider", Leaf("cosign")>> }) }
Bodies ==
    SubDicts({ <<"url", Leaf(u)>> : u \in {"oci://a", "oci://b"} }
             \cup { <<"ref", v>> : v \in RefValues }
             \cup { <<"verify", v>> : v \in VerifyValues })

ChangesInit ==
    /\ EmptyDatabase
    /\ input \in { [ old |-> a, new |-> b ] : a, b \in Bodies }
    /\ output = <<>>

\* The old and the new body of a resource meet: the paths computed by
\* analyze_detailed_changes, and, when the bodies differ, changes_detected of
\* the MODIFIED event that _update_resource adds and that
\* _record_lifecycle_events of the YAMLScanner adds.
AnalyzeCall ==
    /\ output = <<>>
    /\ output' = [ detailed_changes |-> analyze_detailed_changes(input.old, input.new),
                   modified |-> input.old # input.new,
                   changes_detected |-> changes_detected(input.old, input.new),
                   legacy_changes_detected |->
                       analyze_detailed_changes(input.old, input.new) ]
    /\ UNCHANGED <<tables, input>>

ChangesNext == AnalyzeCall

ChangesSpec == ChangesInit /\ [][ChangesNext]_vars

\* ------------------------------------------------------------------ references of a scan

\* spec.chart.spec.sourceRef of a HelmRelease, and a spec.chart that holds it.
SpecSourceRef(name, kind, namespace) ==
    [ present |-> TRUE, name |-> name, kind |-> kind, namespace |-> namespace ]
SpecChartOfSource(version, sourceRef) ==
    [ present |-> TRUE, version |-> version, sourceRef |-> sourceRef ]

\* One reference found in a spec; version is None where the dict has no
\* "version".
Reference(type, path, source_ref, default_kind, namespace, version) ==
    [ type |-> type, path |-> path,
      target_name |-> Get(source_ref.name, ""),
      target_namespace |-> Get(source_ref.namespace, namespace),
      target_kind |-> Get(source_ref.kind, default_kind),
      target_api_version |-> _get_api_version_for_kind(Get(source_ref.kind, default_kind)),
      version |-> version ]

\* ResourceExtractor.find_resource_references for a HelmRelease: the
\* chartRef, else the sourceRef of the chart with the chart's version.
ResourceExtractor_find_resource_references(resource_data) ==
    LET spec == resource_data.spec IN
    IF resource_data.kind # "HelmRelease" THEN <<>>
    ELSE IF spec.chartRef.present
    THEN << Reference("chartRef", "spec.chartRef", spec.chartRef, "OCIRepository",
                      resource_data.namespace, None) >>
    ELSE IF spec.chart.present /\ "sourceRef" \in DOMAIN spec.chart
    THEN << Reference("sourceRef", "spec.chart.spec.sourceRef", spec.chart.sourceRef,
                      "HelmRepository", resource_data.namespace,
                      Get(spec.chart.version, None)) >>
    ELSE <<>>

\* The key extract_resource_references looks the OCIRepository up by.
ReferenceTargetKey(ref) ==
    LET namespace_part == IF Truthy(ref.target_namespace)
                          THEN ref.target_namespace \o ":" ELSE ""
    IN ref.target_api_version \o ":" \o ref.target_kind \o ":"
         \o namespace_part \o ref.target_name

\* A resolution that never looks the OCIRepository up.
referenced_version_literal(ref, filesystem) == ref.version

\* referenced_version of a reference: the tag of the scanned OCIRepository a
\* chartRef without a version points to, else ref.get("version").
referenced_version(ref, filesystem) ==
    IF /\ ref.type = "chartRef" /\ ~Truthy(ref.version)
       /\ ref.target_kind = "OCIRepository"
       /\ ReferenceTargetKey(ref) \in DictKeys(filesystem)
       /\ DictGet(filesystem, ReferenceTargetKey(ref)).kind = "OCIRepository"
    THEN Get(DictGet(filesystem, ReferenceTargetKey(ref)).spec.tag, None)
    ELSE ref.version

\* A row that is external whatever its target.
KubernetesResourceReference_external(repository_id, source, target, ref, version) ==
    [ source_resource_id |-> source, source_repository_id |-> repository_id,
      target_repository_id |-> IF target # Null THEN repository_id ELSE None,
      target_resource_id |-> target,
      reference_type |-> ref.type, reference_path |-> ref.path,
      target_name |-> ref.target_name, target_namespace |-> ref.target_namespace,
      target_kind |-> ref.target_kind, target_api_version |-> ref.target_api_version,
      is_external_reference |-> TRUE,
      referenced_version |-> version ]

\* The KubernetesResourceReference row of one reference.
KubernetesResourceReference(repository_id, source, target, ref, version) ==
    [ source_resource_id |-> source, source_repository_id |-> repository_id,
      target_repository_id |-> IF target # Null THEN repository_id ELSE None,
      target_resource_id |-> target,
      reference_type |-> ref.type, reference_path |-> ref.path,
      target_name |-> ref.target_name, target_namespace |-> ref.target_namespace,
      target_kind |-> ref.target_kind, target_api_version |-> ref.target_api_version,
      is_external_reference |-> target = Null,
      referenced_version |-> version ]

\* ResourceExtractor.extract_resource_references: the rows added to the
\* session; source[i] and target[i] are what the queries return for the
\* i-th scanned resource.
ResourceExtractor_extract_resource_references(filesystem, repository_id, source, target) ==
    Flatten([ i \in 1..Len(filesystem) |->
        MapSeq(ResourceExtractor_find_resource_references(filesystem[i][2]), LAMBDA ref :
               KubernetesResourceReference(repository_id, source[i], target[i], ref,
                                           referenced_version(ref, filesystem))) ])

\* The scanned resources: a HelmRelease grafana with a chartRef, with a
\* chart of a HelmRepository or with a bare chart, alone or beside an
\* OCIRepository grafana or the HelmRepository.
ReferringSpecs ==
    { ResourceSpec(SpecChartRef("grafana", k, ns), NoSpecChart, Missing, Missing) :
        k \in {Missing, "OCIRepository"}, ns \in {Missing, "monitoring"} }
    \cup { ResourceSpec(NoSpecChartRef,
                        SpecChartOfSource(v, SpecSourceRef("charts", "HelmRepository", Missing)),
                        Missing, Missing) : v \in {"8.0.0", Missing} }
    \cup { ResourceSpec(NoSpecChartRef, SpecChart("8.0.0"), Missing, Missing) }
ReferringHelmReleases ==
    { ScannedResource("helm.toolkit.fluxcd.io/v2", "HelmRelease", "grafana", ns, "h1", sp) :
        ns \in Namespaces, sp \in ReferringSpecs }
ReferredSources ==
    { ScannedResource(v, "OCIRepository", "grafana", ns, "h1",
                      ResourceSpec(NoSpecChartRef, NoSpecChart, t, Missing)) :
        v \in {"source.toolkit.fluxcd.io/v1", "source.toolkit.fluxcd.io/v1beta2"},
        ns \in Namespaces, t \in {"9.2.1", Missing} }
    \cup { ScannedResource("source.toolkit.fluxcd.io/v1beta2", "HelmRepository", "charts",
                           None, "h1",
                           ResourceSpec(NoSpecChartRef, NoSpecChart, Missing, GrafanaUrl)) }

\* The row of a scanned resource, as _update_resources leaves it.
RowOf(repository_id, resource_data, current_status) ==
    [ repository_id |-> repository_id, api_version |-> resource_data.api_version,
      kind |-> resource_data.kind, name |-> resource_data.name,
      namespace |-> resource_data.namespace, current_status |-> current_status ]

\* Rows that are no resource of this scan: the OCIRepository grafana of
\* another repository, and the one this repository deleted earlier.
OtherRows ==
    LET oci == ScannedResource("source.toolkit.fluxcd.io/v1", "OCIRepository", "grafana",
                               None, "h1",
                               ResourceSpec(NoSpecChartRef, NoSpecChart, "9.2.1", Missing))
    IN { <<>>, << RowOf("repoB", oci, "ACTIVE") >>, << RowOf("repoA", oci, "DELETED") >>,
         << RowOf("repoB", oci, "ACTIVE"), RowOf("repoA", oci, "DELETED") >> }

\* A scan of repoA at the call of extract_resource_references: the scanned
\* resources by key, and the rows, those of the scanned resources ACTIVE.
ReferenceInputs ==
    { [ filesystem |-> Dict([ i \in 1..Len(fs) |-> <<resource_key(fs[i]), fs[i]>> ]),
        rows |-> other \o [ i \in 1..Len(fs) |-> RowOf("repoA", fs[i], "ACTIVE") ] ] :
        fs \in { <<a>> : a \in ReferringHelmReleases }
               \cup { <<a, b>> : a \in ReferringHelmReleases, b \in ReferredSources },
        other \in OtherRows }

ReferenceInit ==
    /\ EmptyDatabase
    /\ input \in ReferenceInputs
    /\ output = <<>>

\* extract_resource_references(resources, repository.id) of the scan.
ExtractReferencesCall ==
    /\ output = <<>>
    /\ \E source, target \in [ 1..Len(input.filesystem) -> Ids(input.rows) \cup {Null} ] :
          /\ \A i \in 1..Len(input.filesystem) :
               /\ source[i] \in _resolve_source_resource(input.rows, "repoA",
                                                         input.filesystem[i][2])
               /\ \A r \in Range(ResourceExtractor_find_resource_references(
                                    input.filesystem[i][2])) :
                     target[i] \in _resolve_reference_target(r, input.filesystem,
                                                             input.rows, "repoA")
               /\ ResourceExtractor_find_resource_references(input.filesystem[i][2]) = <<>>
                     => target[i] = Null
          /\ output' = [ references |->
                           ResourceExtractor_extract_resource_references(
                               input.filesystem, "repoA", source, target) ]
    /\ UNCHANGED <<tables, input>>

ReferenceNext == ExtractReferencesCall

ReferenceSpec == ReferenceInit /\ [][ReferenceNext]_vars

\* ------------------------------------------------------------------ the files of a checkout

\* A part of a path: whether it starts with '.', its stem and its suffix.
Part(dot, stem, suffix) == [ dot |-> dot, stem |-> stem, suffix |-> suffix ]
PartName(part) == (IF part.dot THEN "." ELSE "") \o part.stem \o part.suffix

\* The names of the parts below, in the order of str comparison, and the
\* comparison of two paths, part by part, that sorted() makes.
SortedNames ==
    << ".cache", ".hidden", ".hidden.yaml", "/", "bar.yml", "baz.yaml", "foo.yaml",
       "notes.txt", "repoA", "sub", "tmp" >>
Rank(part) == CHOOSE i \in 1..Len(SortedNames) : SortedNames[i] = PartName(part)
PathLess(p, q) ==
    \E n \in 0..Len(p) :
       /\ n <= Len(q)
       /\ \A i \in 1..n : Rank(p[i]) = Rank(q[i])
       /\ \/ n = Len(p) /\ n < Len(q)
          \/ n < Len(p) /\ n < Len(q) /\ Rank(p[n+1]) < Rank(q[n+1])
Sorted(S) ==
    CHOOSE q \in Orders(S) : \A i, j \in 1..Len(q) : i < j => PathLess(q[i], q[j])

\* RepositoryScanner.find_yaml_files(repo_path) on the files tree holds
\* below repo_path: repo_path.glob yields repo_path / file for the files
\* that match, and the filter reads all the parts of what it yields.
RepositoryScanner_find_yaml_files(repo_path, tree) ==
    Sorted({ f \in { repo_path \o g : g \in { h \in tree :
                       h[Len(h)].suffix \in {".yaml", ".yml"} } } :
               ~\E i \in 1..Len(f) : f[i].dot })

\* Where a checkout may lie, and the files it may hold.
RepoPaths ==
    { << Part(FALSE, "/", ""), Part(FALSE, "tmp", ""), Part(FALSE, "repoA", "") >>,
      << Part(FALSE, "/", ""), Part(TRUE, "cache", ""), Part(FALSE, "repoA", "") >> }
TreeFiles ==
    { << Part(FALSE, "foo", ".yaml") >>,
      << Part(TRUE, "hidden", ".yaml") >>,
      << Part(FALSE, "sub", ""), Part(FALSE, "bar", ".yml") >>,
      << Part(FALSE, "sub", ""), Part(FALSE, "notes", ".txt") >>,
      << Part(TRUE, "hidden", ""), Part(FALSE, "baz", ".yaml") >>,
      << Part(FALSE, "sub", ""), Part(TRUE, "hidden", ""), Part(FALSE, "foo", ".yaml") >> }

FilesInit ==
    /\ EmptyDatabase
    /\ input \in { [ repo_path |-> r, tree |-> t ] : r \in RepoPaths, t \in SUBSET TreeFiles }
    /\ output = <<>>

FindYamlFilesCall ==
    /\ output = <<>>
    /\ output' = [ yaml_files |->
                     RepositoryScanner_find_yaml_files(input.repo_path, input.tree) ]
    /\ UNCHANGED <<tables, input>>

FilesNext == FindYamlFilesCall

FilesSpec == FilesInit /\ [][FilesNext]_vars

\* ------------------------------------------------------------------ claims

\* The scan that led to this state committed.
Committed == last.outcome = "ok"
\* The scanned list of the scan that led to this state (when it committed).
Scanned == committed[last.repository_id].scanned
\* The events the last committed scan added.
NewEvents == SelectSeq(events, LAMBDA e : e.sync_run_id = last.result.sync_run_id)
Identity(r) == <<r.api_version, r.kind, r.namespace, r.name, r.file_path>>

\* C1: a committed scan whose scanned list equals that of the repository's
\* previous committed scan computes an empty ChangeSet and adds no event.
C1_Idempotence ==
    (Committed /\ last.unchanged) =>
        /\ ChangeCount(last.changeset) = 0
        /\ last.result.created_count = 0
        /\ last.result.modified_count = 0
        /\ last.result.deleted_count = 0
        /\ NewEvents = <<>>

\* A step that is a scan invocation that committed / that raised.
CommitStep == scans' = scans + 1 /\ last'.outcome = "ok"
ErrorStep == scans' = scans + 1 /\ last'.outcome = "error"
\* The scanned list, the ChangeSet and the added events of a committing step.
StepScanned == committed'[last'.repository_id].scanned
StepEvents == SubSeq(events', Len(events) + 1, Len(events'))
\* The changes of changeset cs that carry scanned resource r.
ChangesFor(cs, r) ==
    SelectSeq(cs.created \o cs.modified, LAMBDA c : c.resource_data = r)

\* C2 (as claimed): when a committed scan finds a document whose identity
\* is that of a DELETED row of the repository, the row is ACTIVE again under
\* its original id with deleted_at cleared, no row is allocated for the
\* document, and the scan adds a RESURRECTED event, and no CREATED event,
\* for the row.
C2_ResurrectionPreservesIdentity ==
    [][ CommitStep =>
        \A i \in 1..Len(StepScanned) : \A id \in Ids(resources) :
            ( /\ resources[id].repository_id = last'.repository_id
              /\ resources[id].status = "DELETED"
              /\ Identity(resources[id]) = Identity(StepScanned[i]) ) =>
            /\ resources'[id].id = id
            /\ resources'[id].status = "ACTIVE"
            /\ resources'[id].deleted_at = Null
            /\ \A k \in 1..Len(last'.changeset.created) :
                  last'.changeset.created[k].resource_data # StepScanned[i]
            /\ \E k \in 1..Len(StepEvents) :
                  StepEvents[k].resource_id = id /\ StepEvents[k].event_type = "RESURRECTED"
            /\ \A k \in 1..Len(StepEvents) :
                  StepEvents[k].resource_id = id => StepEvents[k].event_type # "CREATED"
      ]_vars

\* C3: a scan that raises, at whatever step, leaves the persisted resources
\* and lifecycle events exactly as they were before the scan.
C3_Atomicity ==
    [][ ErrorStep => (resources' = resources /\ events' = events) ]_vars

C3_Witness == last.outcome = "error" /\ last.computed > 0

\* C4 (as claimed): the resource mutations, lifecycle events and references
\* of one scan are one unit: a scan that raises, reference extraction
\* included, leaves resources, events and references as they were, and a
\* scan that returns has committed the references it extracted.
C4_OneAtomicUnit ==
    [][ /\ ErrorStep => /\ resources' = resources
                        /\ events' = events
                        /\ references' = references
        /\ CommitStep => pending' = <<>>
      ]_vars

\* C5: for a scanned resource whose key is in the map of existing ACTIVE
\* resources, the ChangeSet holds one MODIFIED change (before = the existing
\* hash, after = the scanned hash) when the hashes differ, and no change when
\* they are equal.
C5_Modified ==
    [][ CommitStep =>
        \A i \in 1..Len(StepScanned) :
            LET r == StepScanned[i]
                for == ChangesFor(last'.changeset, r)
            IN  resource_key(r) \in DictKeys(last'.existing) =>
                LET e == DictGet(last'.existing, resource_key(r)) IN
                IF resources[e].file_hash # r.file_hash
                THEN for = << ResourceChange("MODIFIED", r, e,
                                             resources[e].file_hash, r.file_hash) >>
                ELSE for = <<>>
      ]_vars

C5_Witness ==
    /\ Committed
    /\ \E i \in 1..Len(last.changeset.modified) :
          last.changeset.modified[i].type = "MODIFIED"
    /\ \E i \in 1..Len(Scanned) :
          /\ resource_key(Scanned[i]) \in DictKeys(last.existing)
          /\ ChangesFor(last.changeset, Scanned[i]) = <<>>

\* C6 (as claimed): every ACTIVE resource of the repository whose key is not
\* among the scanned keys gets exactly one DELETED change and is DELETED, with
\* deleted_at set and its id kept, after the commit; no other resource gets a
\* DELETED change.
C6_Deleted ==
    [][ CommitStep =>
        LET repo == last'.repository_id
            keys == { resource_key(StepScanned[i]) : i \in 1..Len(StepScanned) }
            dels(id) == SelectSeq(last'.changeset.deleted,
                                  LAMBDA c : c.existing_resource = id)
        IN  \A id \in Ids(resources) :
              IF id \in ActiveIds(resources, repo)
                 /\ row_resource_key(resources[id]) \notin keys
              THEN /\ Len(dels(id)) = 1
                   /\ resources'[id].status = "DELETED"
                   /\ resources'[id].deleted_at # Null
                   /\ resources'[id].id = id
              ELSE Len(dels(id)) = 0
      ]_vars

\* C7 (as claimed): a scanned resource that is not in the active map is
\* RESURRECTED only from a DELETED row of the repository with the identical
\* (apiVersion, kind, namespace, name, filePath), and CREATED otherwise.
C7_CreatedOrResurrected ==
    [][ CommitStep =>
        \A i \in 1..Len(StepScanned) :
            LET r == StepScanned[i]
                for == ChangesFor(last'.changeset, r)
                same == { id \in Ids(resources) :
                            /\ resources[id].repository_id = last'.repository_id
                            /\ resources[id].status = "DELETED"
                            /\ Identity(resources[id]) = Identity(r) }
            IN  resource_key(r) \notin DictKeys(last'.existing) =>
                /\ Len(for) = 1
                /\ for[1].type \in {"CREATED", "RESURRECTED"}
                /\ for[1].type = "RESURRECTED" => for[1].existing_resource \in same
                /\ same = {} => for[1].type = "CREATED"
      ]_vars

\* C8 (as claimed): a committed scan adds exactly one event per change, of
\* the change's type and with the change's hashes, and none beyond them.
C8_OneEventPerChange ==
    [][ CommitStep =>
        LET changes == AllChanges(last'.changeset) IN
        /\ Len(StepEvents) = ChangeCount(last'.changeset)
        /\ \A k \in 1..Len(changes) :
              k <= Len(StepEvents) =>
              /\ StepEvents[k].event_type = changes[k].type
              /\ StepEvents[k].file_hash_before = changes[k].file_hash_before
              /\ StepEvents[k].file_hash_after = changes[k].file_hash_after
      ]_vars

\* C9: every persisted resource has a lifecycle event, and it is DELETED
\* exactly when its most recent event is DELETED, and ACTIVE exactly when its
\* most recent event is CREATED, MODIFIED or RESURRECTED.
LastEventOf(id) ==
    LET of == { k \in 1..Len(events) : events[k].resource_id = id }
    IN events[CHOOSE k \in of : \A m \in of : m <= k]

C9_StatusPairedWithEvent ==
    \A id \in Ids(resources) :
        /\ \E k \in 1..Len(events) : events[k].resource_id = id
        /\ resources[id].status = "DELETED" <=> LastEventOf(id).event_type = "DELETED"
        /\ resources[id].status = "ACTIVE" <=>
              LastEventOf(id).event_type \in {"CREATED", "MODIFIED", "RESURRECTED"}

C9_Witness ==
    /\ \E id \in Ids(resources) : resources[id].status = "DELETED"
    /\ \E id \in Ids(resources) :
          resources[id].status = "ACTIVE" /\ LastEventOf(id).event_type = "RESURRECTED"

\* C10: the events a scan adds all carry the sync_run_id of its ScanResult,
\* and no event of an earlier scan carries it.
C10_SyncRunId ==
    [][ CommitStep =>
        /\ \A k \in 1..Len(StepEvents) :
              StepEvents[k].sync_run_id = last'.result.sync_run_id
        /\ \A k \in 1..Len(events) :
              events[k].sync_run_id # last'.result.sync_run_id
      ]_vars

C10_Witness ==
    /\ Committed
    /\ Len(NewEvents) >= 2
    /\ \E k \in 1..Len(events) :
          /\ events[k].sync_run_id # last.result.sync_run_id
          /\ events[k].repository_id # last.repository_id

\* ------------------------------------------------------------------ C11, C12: the identity key

\* The key the repository's test of ResourceData expects.
KeyWithFilePath(r) ==
    r.api_version \o ":" \o r.kind \o ":"
        \o (IF r.namespace # None THEN r.namespace \o ":" ELSE "")
        \o r.name \o ":" \o r.file_path

\* C11: resource_key() returns apiVersion:kind:namespace:name:filePath, or
\* apiVersion:kind:name:filePath when the namespace is absent, so that two
\* resources in different files have different keys.
C11_KeyHasFilePath ==
    output # <<>> =>
        /\ \A i \in 1..2 : output.data[i] = KeyWithFilePath(input[i])
        /\ input[1].file_path # input[2].file_path => output.data[1] # output.data[2]

\* C12: the identity key is injective: two resources with different
\* identity tuples never get the same key, from ResourceData.resource_key()
\* or from the scanner's _resource_key, and a namespaced resource never
\* shares a key with a namespace-less one.
C12_KeyInjective ==
    output # <<>> =>
        /\ Identity(input[1]) # Identity(input[2])
              => output.data[1] # output.data[2] /\ output.row[1] # output.row[2]
        /\ (input[1].namespace = None) # (input[2].namespace = None)
              => output.data[1] # output.data[2]

\* ------------------------------------------------------------------ C13: total_resources

\* No two rows of the repository share a key: the scan's map of existing
\* resources holds every ACTIVE row.
DistinctKeys(repository_id) ==
    \A i, j \in Ids(resources) :
        /\ i # j
        /\ resources[i].repository_id = repository_id
        /\ resources[j].repository_id = repository_id
        => row_resource_key(resources[i]) # row_resource_key(resources[j])

\* C13: the total_resources a committed scan returns is the number of
\* ACTIVE rows of the repository after the scan, also when the scan
\* resurrected rows. Stated for repositories whose rows have distinct keys.
C13_TotalIsActiveCount ==
    (Committed /\ DistinctKeys(last.repository_id)) =>
        last.result.total_resources =
            Cardinality(ActiveIds(resources, last.repository_id))

\* ------------------------------------------------------------------ C14: resurrections are modifications

\* A row's lifecycle status, under either schema.
RowStatus(row) ==
    IF "status" \in DOMAIN row THEN row.status ELSE row.current_status

\* The rows a step reactivates: DELETED before it, ACTIVE after it.
Reactivated ==
    { id \in Ids(resources) : /\ RowStatus(resources[id]) = "DELETED"
                              /\ RowStatus(resources'[id]) = "ACTIVE" }

\* C14: in a committed scan every reactivated row has a RESURRECTED change
\* in ChangeSet.modified; created holds CREATED changes only, and
\* created_count counts the rows the scan inserted and no resurrection;
\* modified_count counts the modified collection, resurrections included;
\* a RESURRECTED change leaves its row ACTIVE with deleted_at cleared.
C14_ResurrectionsAreModified ==
    [][ CommitStep =>
          /\ \A id \in Reactivated :
                \E k \in 1..Len(last'.changeset.modified) :
                    /\ last'.changeset.modified[k].type = "RESURRECTED"
                    /\ last'.changeset.modified[k].existing_resource = id
          /\ \A k \in 1..Len(last'.changeset.created) :
                last'.changeset.created[k].type = "CREATED"
          /\ last'.result.created_count = Len(resources') - Len(resources)
          /\ last'.result.modified_count = Len(last'.changeset.modified)
          /\ \A k \in 1..Len(last'.changeset.modified) :
                last'.changeset.modified[k].type = "RESURRECTED" =>
                    LET row == resources'[last'.changeset.modified[k].existing_resource]
                    IN RowStatus(row) = "ACTIVE" /\ row.deleted_at = Null
      ]_vars

\* ------------------------------------------------------------------ C15, C16: the scan task

\* The repository row after the attempt, and how the attempt ended.
TaskRow == repository'[task'.repository_id]
TaskFailed == task'.status \in {"retry", "failed"}
Last(s) == s[Len(s)]

\* What holds of every attempt: SYNCING is committed before scan_directory
\* is called, and a successful attempt ends with SUCCESS, no scan_error,
\* last_scan_at set and last_scan_total_resources equal to the scan's total.
SyncingThenSuccess ==
    /\ task'.scanned => Len(task'.statuses) > 0 /\ task'.statuses[1] = "syncing"
    /\ task'.status = "success" =>
          /\ task'.scanned /\ last'.outcome = "ok"
          /\ TaskRow.scan_status = "success"
          /\ TaskRow.scan_error = <<>>
          /\ TaskRow.last_scan_at = <<scans'>>
          /\ TaskRow.last_scan_total_resources = <<last'.result.total_resources>>

\* The row says ERROR with the attempt's message cut to ErrorLimit characters.
ErrorRecorded ==
    /\ TaskRow.scan_status = "error"
    /\ TaskRow.scan_error = <<Slice(task'.exc[1], ErrorLimit)>>
    /\ TaskRow.scan_error[1].length <= ErrorLimit

\* C15 (as claimed): the task sets SYNCING before scanning; on success it
\* sets SUCCESS, scan_error None, last_scan_at and last_scan_total_resources;
\* on failure it sets ERROR with the message cut to 2000 characters and
\* passes the error on for retry.
C15_StatusProtocol ==
    [][ /\ SyncingThenSuccess
        /\ TaskFailed => task'.exc # <<>> /\ ErrorRecorded
      ]_vars

\* C15 (amended): as claimed, except that a failed attempt whose status
\* update in the error handler itself raises leaves the row as the attempt
\* last committed it (untouched when the attempt committed nothing, else
\* SYNCING or SUCCESS); the error is passed on for retry in every case.
C15_StatusProtocolWhenRecorded ==
    [][ /\ SyncingThenSuccess
        /\ TaskFailed =>
              /\ task'.exc # <<>>
              /\ IF task'.statuses # <<>> /\ Last(task'.statuses) = "error"
                 THEN ErrorRecorded
                 ELSE IF task'.statuses = <<>>
                      THEN TaskRow = repository[task'.repository_id]
                      ELSE /\ TaskRow.scan_status = Last(task'.statuses)
                           /\ TaskRow.scan_error = <<>>
      ]_vars

\* A failed attempt whose message was longer than the column and was cut.
C15_Witness ==
    /\ task.status = "retry"
    /\ task.exc # <<>> /\ task.exc[1].length > ErrorLimit
    /\ repository[task.repository_id].scan_status = "error"
    /\ repository[task.repository_id].scan_error # <<>>
    /\ repository[task.repository_id].scan_error[1].length = ErrorLimit

\* C16: an attempt whose working directory is not set or does not exist
\* fails with the ValueError before any scanning: SYNCING is not set in the
\* attempt, scan_directory is not called, and no resource or event changes.
C16_InvalidDirectoryFailsFirst ==
    [][ task'.working_directory_path # "present" =>
          /\ TaskFailed
          /\ task'.exc = validate_working_directory(task'.working_directory_path)
          /\ \A k \in 1..Len(task'.statuses) : task'.statuses[k] # "syncing"
          /\ ~task'.scanned
          /\ scans' = scans
          /\ resources' = resources
          /\ events' = events
      ]_vars

\* An attempt on a missing directory failed while the repository has ACTIVE
\* resources, which are still ACTIVE.
C16_Witness ==
    /\ task.working_directory_path = "missing"
    /\ task.status = "retry" /\ ~task.scanned
    /\ task.repository_id \in Repositories
    /\ ActiveIds(resources, task.repository_id) # {}

\* ------------------------------------------------------------------ C17, C18: scan_directory

\* The file a resource's file identifier (path, or path#index) belongs to.
FileOf(file_path) ==
    CHOOSE i \in 1..Len(input) :
        \E k \in 0..2 : file_path = IF k = 0 THEN input[i].path
                                    ELSE input[i].path \o "#" \o ToString(k)

\* C17: one bad file never aborts the scan: scan_directory raises nothing,
\* a file whose reading or parsing raises contributes no resource, and every
\* supported document of every other file is among the resources returned.
C17_BadFileNeverAborts ==
    output # <<>> =>
        /\ ~output.raised
        /\ \A k \in 1..Len(output.value) :
              input[FileOf(output.value[k].file_path)].error = None
        /\ \A i \in 1..Len(input) : \A d \in 1..Len(input[i].documents) :
              (input[i].error = None
               /\ is_supported_resource(input[i].documents[d].apiVersion,
                                        input[i].documents[d].kind))
              => \E k \in 1..Len(output.value) :
                    /\ FileOf(output.value[k].file_path) = i
                    /\ output.value[k].kind = input[i].documents[d].kind
                    /\ output.value[k].data = input[i].documents[d].spec

\* C18: the file_hash is per file: any two resources scan_directory returns
\* for documents of the same file carry the same file_hash.
C18_PerFileHash ==
    (output # <<>> /\ ~output.raised) =>
        \A k, m \in 1..Len(output.value) :
            FileOf(output.value[k].file_path) = FileOf(output.value[m].file_path)
            => output.value[k].file_hash = output.value[m].file_hash

\* ------------------------------------------------------------------ C19: the grafana scenario

\* The scanned resources of a kind, and the checkout they describe.
OfKind(scanned, kind) == SelectSeq(scanned, LAMBDA r : r.kind = kind)
BothFiles(scanned) ==
    /\ Len(scanned) = 2
    /\ Len(OfKind(scanned, "OCIRepository")) = 1
    /\ Len(OfKind(scanned, "HelmRelease")) = 1
Counts(result) == <<result.created_count, result.modified_count, result.deleted_count>>

ReferencedOCIRepository(filesystem, key) ==
    { target \in DOMAIN filesystem :
        /\ filesystem[key].kind = "HelmRelease"
        /\ filesystem[key].spec.chartRef.present
        /\ ~filesystem[key].spec.chart.present
        /\ filesystem[target].kind = "OCIRepository"
        /\ Get(filesystem[key].spec.chartRef.kind, "OCIRepository") = "OCIRepository"
        /\ filesystem[target].name = filesystem[key].spec.chartRef.name
        /\ filesystem[target].namespace =
             Get(filesystem[key].spec.chartRef.namespace, filesystem[key].namespace) }

\* C20: every metrics record a scan writes for a HelmRelease with a chartRef
\* to an OCIRepository and no version of its own, while that OCIRepository is
\* in the scanned set, has the tag of the OCIRepository as chart_version and
\* its url as chart_repository, also when the HelmRelease alone changed.
C20_ReferencedVersionInMetrics ==
    output # <<>> =>
      \A key \in DOMAIN output.metrics :
        \A target \in ReferencedOCIRepository(input.filesystem, key) :
          /\ output.metrics[key].chart_version = input.filesystem[target].spec.tag
          /\ output.metrics[key].chart_repository =
               Get(input.filesystem[target].spec.url, None)

\* ------------------------------------------------------------------ C21: repository isolation

\* The rows and the events of one repository, each with the
\* position it has in its table.
RowsOf(rows, b) == { <<i, rows[i]>> : i \in { j \in Ids(rows) : rows[j].repository_id = b } }
EventsOf(evs, b) ==
    { <<i, evs[i]>> : i \in { j \in 1..Len(evs) : evs[j].repository_id = b } }

\* The rows a ChangeSet names.
RowsNamed(changeset) ==
    { AllChanges(changeset)[i].existing_resource : i \in 1..ChangeCount(changeset) } \ {Null}

\* C21: a scan of repository A, committed or rolled back, leaves the rows,
\* the lifecycle events and the references of every other repository B as
\* they were, and its ChangeSet names rows of A only: no row of B is
\* modified, deleted or resurrected by it.
C21_RepositoryIsolation ==
    [][ scans' # scans =>
          /\ \A b \in Repositories \ {last'.repository_id} :
               /\ RowsOf(resources', b) = RowsOf(resources, b)
               /\ EventsOf(events', b) = EventsOf(events, b)
          /\ references' = references
          /\ \A i \in RowsNamed(last'.changeset) :
               /\ i \in Ids(resources)
               /\ resources[i].repository_id = last'.repository_id ]_vars

\* A scan of repoA has created the document that repoB holds as a DELETED row.
C21_Witness ==
    /\ last.repository_id = "repoA"
    /\ last.outcome = "ok"
    /\ Len(last.changeset.created) > 0
    /\ \E i, j \in Ids(resources) :
         /\ resources[i].repository_id = "repoB"
         /\ resources[i].status = "DELETED"
         /\ resources[j].repository_id = "repoA"
         /\ resources[j].status = "ACTIVE"
         /\ Identity(resources[j]) = Identity(resources[i])

\* ------------------------------------------------------------------ C22: one scan per repository at a time

\* The workers whose scan of repository r has loaded the existing resources
\* and has not committed.
Scanning(r) ==
    { w \in Workers : At(w, "scan_repository", "loaded") /\ workers[w].repository_id = r }

\* C22: the tasks serialize the scans of a repository: at any time at most
\* one scan of it is between loading the existing resources and committing.
C22_ScansSerialized ==
    \A r \in Repositories : Cardinality(Scanning(r)) <= 1

\* ------------------------------------------------------------------ C23: sync, then scan

\* The step sends a first delivery of the scan task.
ScanTriggered ==
    /\ Len(broker') = Len(broker) + 1
    /\ broker'[Len(broker')].task = "scan_repository"
    /\ broker'[Len(broker')].retries = 0

\* Worker w ends an attempt of the sync task with this step, returning status.
SyncEnds(w, status) ==
    /\ workers[w].task = "sync_repository"
    /\ workers'[w].task = "idle"
    /\ workers'[w].result = Result(status, 0)

\* The scan is triggered by a sync that returns success, after its SUCCESS
\* commit, with the id and the stats the sync was sent with; that commit
\* follows the git step and writes SUCCESS, last_sync_at and the directory;
\* a sync that returns success has triggered one scan.
ScanAfterSync ==
    /\ ScanTriggered =>
         \E w \in Workers :
           /\ At(w, "sync_repository", "committed")
           /\ SyncEnds(w, "success")
           /\ broker' = Append(broker, TaskMessage("scan_repository",
                                   workers[w].repository_id, workers[w].stats, 0))
    /\ \A w \in Workers :
         /\ SyncEnds(w, "success") =>
              /\ ScanTriggered
              /\ broker'[Len(broker')].repository_id = workers[w].repository_id
         /\ (workers[w].task = "sync_repository" /\ workers'[w].task = "sync_repository") =>
              /\ workers'[w].repository_id = workers[w].repository_id
              /\ workers'[w].stats = workers[w].stats
         /\ (workers[w].task = "sync_repository" /\ workers'[w].pc = "committed"
               /\ workers[w].pc # "committed") =>
              /\ workers[w].pc = "synced"
              /\ repository'[workers[w].repository_id].sync_status = "success"
              /\ repository'[workers[w].repository_id].sync_error = <<>>
              /\ repository'[workers[w].repository_id].last_sync_at # <<>>
              /\ repository'[workers[w].repository_id].working_directory_path
                   = workers[w].repository_id

\* Worker w ends a failed attempt of the sync task with this step.
SyncFails(w) == SyncEnds(w, "retry") \/ SyncEnds(w, "failed")

\* The row of the failed sync says ERROR with the message cut to ErrorLimit.
SyncErrorRecorded(w) ==
    /\ repository'[workers[w].repository_id].sync_status = "error"
    /\ repository'[workers[w].repository_id].sync_error
         = <<Slice(workers[w].error[1], ErrorLimit)>>
    /\ repository'[workers[w].repository_id].sync_error[1].length <= ErrorLimit

Removed == { d \in Directories : workdirs[d] # "absent" /\ workdirs'[d] = "absent" }

\* Worker w runs one iteration of the cleanup loop, or leaves the loop.
CleanupStep(w) ==
    /\ At(w, "cleanup_repository_workdirs", "iterating")
    /\ workers'[w] # workers[w]

\* What an iteration does with the directories, given the ids it may not
\* remove: it removes at most one directory, none of those ids, counts a
\* removal and nothing else, and goes on after a removal that failed; the
\* count is returned when no listed entry is left.
CleanupRemoves(w, active) ==
    /\ Removed \cap active = {}
    /\ Cardinality(Removed) <= 1
    /\ workers'[w].task = "cleanup_repository_workdirs" =>
         /\ workers'[w].pc = "iterating"
         /\ workers'[w].cleaned_count = workers[w].cleaned_count + Cardinality(Removed)
         /\ \E item \in workers[w].items :
              /\ workers'[w].items = workers[w].items \ {item}
              /\ Removed \subseteq {item}
    /\ workers'[w].task = "idle" =>
         /\ Removed = {}
         /\ workers[w].items = {}
         /\ workers'[w].result = Result("Cleaned up", workers[w].cleaned_count)

\* C24: cleanup_repository_workdirs removes only directories whose name is
\* not the id of a repository that is neither BLOCKED nor PENDING_APPROVAL,
\* never the working directory of such a repository, also when a sync or an
\* approval of it runs in between; a removal that fails is not counted and
\* the cleanup goes on.
C24_CleanupSparesActive ==
    [][ /\ Removed # {} => \E w \in Workers : CleanupStep(w)
        /\ \A w \in Workers :
             CleanupStep(w) => CleanupRemoves(w, get_active_repository_ids)
      ]_vars

\* ------------------------------------------------------------------ C25: namespace inheritance

\* The Kustomizations with a targetNamespace whose directory encloses the
\* file of document d, and the deepest of them.
Enclosing(documents, d) ==
    { k \in Range(documents) :
        /\ k.kind = "Kustomization" /\ k.targetNamespace # None
        /\ is_relative_to(d.file_path, Parent(k.file_path)) }
Nearest(documents, d) ==
    { k \in Enclosing(documents, d) :
        \A m \in Enclosing(documents, d) : Len(m.file_path) <= Len(k.file_path) }

\* The namespaces post_process left agree with the documents it was run on.
NamespacesInherited(documents, resources_) ==
    \A i \in 1..Len(documents) :
       IF documents[i].namespace # None
       THEN resources_[i].namespace = documents[i].namespace
       ELSE IF Enclosing(documents, documents[i]) = {}
            THEN resources_[i].namespace = None
            ELSE resources_[i].namespace \in
                   { k.targetNamespace : k \in Nearest(documents, documents[i]) }

\* C25: after post_process a resource with no namespace of its own under a
\* Kustomization that has a targetNamespace has the targetNamespace of the
\* nearest such Kustomization, in any file order; a resource with a namespace
\* keeps it, and one under no such Kustomization keeps none.
C25_NamespaceInheritance ==
    output # <<>> => NamespacesInherited(input.documents, output.resources)

\* ------------------------------------------------------------------ C26: versions at scan time

\* The resources as parsed, before post_process.
Parsed == FileResources(find_yaml_files(input))

\* The versions of the OCIRepositories of the scan called name.
VersionsOf(name) ==
    { Parsed[j].version : j \in { j \in 1..Len(Parsed) :
                                    IsOCIRepository(Parsed[j]) /\ Parsed[j].name = name } }

\* The HelmRelease at i has no literal version and uses chartRef.
UsesChartRef(i) ==
    /\ IsHelmRelease(Parsed[i])
    /\ Parsed[i].version = None
    /\ Parsed[i].data.chartRef.shape = "map"

LeafEntries(old, new, path, key) ==
    IF key \notin Keys(old) THEN { path \o "." \o key \o " (added)" }
    ELSE IF key \notin Keys(new) THEN { path \o "." \o key \o " (removed)" }
    ELSE IF Item(old, key) # Item(new, key) THEN { path \o "." \o key }
    ELSE {}

\* What is listed for a key of the bodies.
Entries(old, new, key) ==
    IF /\ key \in Keys(old) /\ key \in Keys(new)
       /\ Item(old, key).isdict /\ Item(new, key).isdict
    THEN UNION { LeafEntries(Item(old, key).items, Item(new, key).items,
                             "spec." \o key, k) :
                 k \in Keys(Item(old, key).items) \cup Keys(Item(new, key).items) }
    ELSE LeafEntries(old, new, "spec", key)

ChangedPaths(old, new) ==
    UNION { Entries(old, new, key) : key \in Keys(old) \cup Keys(new) }

\* C27: the changed paths of two bodies are "path (added)" for a key of the
\* new body only, "path (removed)" for a key of the old body only, and the
\* dotted path of a key whose values differ, down to the leaves when both
\* values are maps; equal values are not listed, equal bodies give the empty
\* list, and the list is what the MODIFIED event of the change stores.
C27_ChangedPathsStored ==
    output # <<>> =>
       /\ output.detailed_changes = ChangedPaths(input.old, input.new)
       /\ input.old = input.new => output.detailed_changes = {}
       /\ output.modified => output.changes_detected = output.detailed_changes

\* ------------------------------------------------------------------ C28: targets of references

\* Reference row ref points to row i, and i is an ACTIVE row of the
\* repository with the referenced apiVersion, kind, name and namespace.
ResolvedTo(ref, rows, i) ==
    /\ i \in Ids(rows)
    /\ rows[i].repository_id = ref.source_repository_id
    /\ rows[i].current_status = "ACTIVE"
    /\ rows[i].api_version = ref.target_api_version
    /\ rows[i].kind = ref.target_kind
    /\ rows[i].name = ref.target_name
    /\ rows[i].namespace = ref.target_namespace

\* C28: for every reference of a scan is_external_reference is true exactly
\* when target_resource_id is null, and so is target_repository_id null; a
\* target is an ACTIVE row of the same repository with the referenced
\* apiVersion, kind, name and namespace; a reference whose target is not
\* found is written all the same.
C28_ReferenceTargets ==
    output # <<>> =>
       /\ \A n \in 1..Len(output.references) :
            LET ref == output.references[n] IN
            /\ ref.is_external_reference <=> ref.target_resource_id = Null
            /\ ref.target_repository_id = None <=> ref.target_resource_id = Null
            /\ ref.target_resource_id # Null =>
                  /\ ref.target_repository_id = ref.source_repository_id
                  /\ ResolvedTo(ref, input.rows, ref.target_resource_id)
       /\ Len(output.references) =
            Cardinality({ i \in 1..Len(input.filesystem) :
                            ResourceExtractor_find_resource_references(
                                input.filesystem[i][2]) # <<>> })

\* A chartRef resolved to the scanned OCIRepository while another
\* repository holds an OCIRepository of the same name.
C28_Witness ==
    /\ output # <<>>
    /\ \E i \in Ids(input.rows) : input.rows[i].repository_id = "repoB"
    /\ \E n \in 1..Len(output.references) :
         /\ output.references[n].target_resource_id # Null
         /\ ~output.references[n].is_external_reference

\* ------------------------------------------------------------------ C29: versions of references

\* The scanned resources that are the target of reference row ref.
TargetsInScan(ref) ==
    { i \in 1..Len(input.filesystem) :
        /\ input.filesystem[i][2].api_version = ref.target_api_version
        /\ input.filesystem[i][2].kind = ref.target_kind
        /\ input.filesystem[i][2].name = ref.target_name
        /\ input.filesystem[i][2].namespace = ref.target_namespace }

\* The HelmReleases of the scan that reference row ref may come from.
SourcesInScan(ref) ==
    { i \in 1..Len(input.filesystem) :
        /\ input.filesystem[i][2].kind = "HelmRelease"
        /\ ResourceExtractor_find_resource_references(input.filesystem[i][2]) # <<>> }

Visible(tree) ==
    { f \in tree : /\ f[Len(f)].suffix \in {".yaml", ".yml"}
                   /\ \A i \in 1..Len(f) : ~f[i].dot }

\* C30: find_yaml_files returns, sorted, exactly the *.yaml and *.yml files
\* whose path below the root has no part starting with '.', wherever the
\* root lies.
C30_HiddenBelowRoot ==
    output # <<>> =>
       /\ Range(output.yaml_files) = { input.repo_path \o f : f \in Visible(input.tree) }
       /\ Len(output.yaml_files) = Cardinality(Visible(input.tree))
       /\ \A i, j \in 1..Len(output.yaml_files) :
             i < j => PathLess(output.yaml_files[i], output.yaml_files[j])

\* ------------------------------------------------------------------ C31: a sync that is skipped

\* Worker w runs the first step of a sync of a repository that is BLOCKED
\* or PENDING_APPROVAL.
SkippedSyncStep(w) ==
    /\ At(w, "sync_repository", "start")
    /\ repository[workers[w].repository_id].sync_status \in {"blocked", "pending_approval"}
    /\ workers'[w] # workers[w]

\* C31: a sync of a repository that is BLOCKED or PENDING_APPROVAL returns
\* 'skipped', runs no git step, triggers no scan and leaves the row of the
\* repository (sync_status, sync_error, last_sync_at,
\* working_directory_path) as it was.
C31_BlockedSyncSkipped ==
    [][ \A w \in Workers :
          SkippedSyncStep(w) =>
            /\ workers'[w] = Idle(Result("skipped", 0))
            /\ workdirs' = workdirs
            /\ ~ScanTriggered
            /\ repository' = repository
      ]_vars

\* ------------------------------------------------------------------ C32: BLOCKED until approved

\* The step is approve_repository on r: the only step that sets PENDING.
Approved(r) ==
    /\ repository[r].sync_status \in {"blocked", "pending_approval"}
    /\ repository'[r] = [ repository[r] EXCEPT !.sync_status = "pending", !.sync_error = <<>> ]
    /\ UNCHANGED celery

\* Only approve_repository takes a repository out of BLOCKED and
\* PENDING_APPROVAL, and it acts in no other status.
ApproveOnly ==
    [][ \A r \in TaskRepositories :
          /\ ( /\ repository[r].sync_status \in {"blocked", "pending_approval"}
               /\ repository'[r].sync_status \notin {"blocked", "pending_approval"} )
             => Approved(r)
          /\ ( /\ repository[r].sync_status # "pending"
               /\ repository'[r].sync_status = "pending" )
             => Approved(r)
      ]_vars

\* C32: a BLOCKED repository stays BLOCKED until approve_repository is
\* called: no step of a sync, of its error handler or of the discovery
\* overwrites BLOCKED; approve_repository is the only transition out of
\* BLOCKED or PENDING_APPROVAL, sets PENDING, and is rejected elsewhere.
C32_BlockedUntilApproved ==
    [][ \A r \in TaskRepositories :
          /\ ( /\ repository[r].sync_status = "blocked"
               /\ repository'[r].sync_status # "blocked" )
             => Approved(r)
          /\ ( /\ repository[r].sync_status \in {"blocked", "pending_approval"}
               /\ repository'[r].sync_status \notin {"blocked", "pending_approval"} )
             => Approved(r)
          /\ ( /\ repository[r].sync_status # "pending"
               /\ repository'[r].sync_status = "pending" )
             => Approved(r)
      ]_vars

\* ------------------------------------------------------------------ C33: the retries of a task

\* The tasks that retry, and the status and error columns each one writes.
RetriedTasks == {"sync_repository", "scan_repository"}
StatusOf(row, name) == IF name = "sync_repository" THEN row.sync_status ELSE row.scan_status
ErrorOf(row, name) == IF name = "sync_repository" THEN row.sync_error ELSE row.scan_error

\* Worker w runs the error handler of a failed attempt.
HandlerStep(w) ==
    /\ workers[w].task \in RetriedTasks
    /\ workers[w].pc = "error"
    /\ workers'[w] # workers[w]

\* The handler of w leaves ERROR and the message in the row of the repository.
ErrorLeft(w) ==
    \E r \in {workers[w].repository_id} :
      /\ StatusOf(repository'[r], workers[w].task) = "error"
      /\ ErrorOf(repository'[r], workers[w].task) = <<Slice(workers[w].error[1], ErrorLimit)>>

\* The handler of w sends the same task again, one retry further, to run
\* after 60 * 2^retries seconds, unless three retries were made already:
\* then nothing is sent and the task ends as failed.
RetryScheduled(w) ==
    IF workers[w].retries < MaxRetries
    THEN /\ Len(broker') = Len(broker) + 1
         /\ SubSeq(broker', 1, Len(broker)) = broker
         /\ \E message \in {broker'[Len(broker')]} :
              /\ message.task = workers[w].task
              /\ message.repository_id = workers[w].repository_id
              /\ message.stats = workers[w].stats
              /\ message.retries = workers[w].retries + 1
              /\ message.countdown = <<60, 120, 240>>[message.retries]
         /\ workers'[w] = Idle(Result("retry", 0))
    ELSE /\ broker' = broker
         /\ workers'[w] = Idle(Result("failed", 0))

\* Worker w commits the success of an attempt: SUCCESS, and no error.
SuccessCommitted(w) ==
    ( \/ At(w, "sync_repository", "synced") /\ workers'[w].pc = "committed"
      \/ At(w, "scan_repository", "applied") /\ workers'[w] = Idle(Result("success", 0)) )
    => \E r \in {workers[w].repository_id} :
         /\ StatusOf(repository'[r], workers[w].task) = "success"
         /\ ErrorOf(repository'[r], workers[w].task) = <<>>

\* No attempt is a retry beyond the third.
RetriesBounded ==
    /\ \A w \in Workers : workers'[w].retries <= MaxRetries
    /\ \A i \in 1..Len(broker') : broker'[i].retries <= MaxRetries

\* C33 (as claimed): each failed attempt of the scan and of the sync task
\* records ERROR and schedules a retry after 60 * 2^retries seconds (60,
\* 120, 240); at most 3 retries are made, so a task that keeps failing ends
\* with the status left at ERROR; an attempt that succeeds ends with
\* SUCCESS and the error cleared.
C33_RetryPolicy ==
    [][ /\ RetriesBounded
        /\ \A w \in Workers :
             /\ HandlerStep(w) => ErrorLeft(w) /\ RetryScheduled(w)
             /\ SuccessCommitted(w)
      ]_vars

\* C33 (amended): as claimed, except that a failed attempt whose status
\* update in the handler itself raises leaves the row of the repository as
\* it was; the retry is scheduled, or the task ends, all the same.
C33_RetryPolicyWhenRecorded ==
    [][ /\ RetriesBounded
        /\ \A w \in Workers :
             /\ HandlerStep(w) =>
                  /\ ErrorLeft(w) \/ repository' = repository
                  /\ RetryScheduled(w)
             /\ SuccessCommitted(w)
      ]_vars

\* A sync has failed four times and ended, ERROR left in the row, and
\* nothing waits at the broker.
C33_Witness ==
    /\ \E w \in Workers : workers[w].result = Result("failed", 0)
    /\ repository["repoA"].sync_status = "error"
    /\ broker = <<>>

\* ------------------------------------------------------------------ C34: one row per identity

\* The rows of repository r that have the identity of row i.
RowsLike(r, i) ==
    { j \in Ids(resources) : /\ resources[j].repository_id = r
                             /\ Identity(resources[j]) = Identity(resources[i]) }

\* C34: after any sequence of committed scans a repository has at most one
\* ACTIVE row per identity (apiVersion, kind, namespace, name, filePath),
\* and at most one row, ACTIVE or DELETED, per identity.
C34_OneRowPerIdentity ==
    \A i \in Ids(resources) :
      \E rows \in {RowsLike(resources[i].repository_id, i)} :
        /\ Cardinality({ j \in rows : resources[j].status = "ACTIVE" }) <= 1
        /\ Cardinality(rows) <= 1

\* ------------------------------------------------------------------ C35: the rows after a scan

\* The ACTIVE rows of the repository the last scan was of.
ActiveRows == { resources[i] : i \in ActiveIds(resources, last.repository_id) }

\* C35: after a committed scan the identities of the repository's ACTIVE
\* rows are the identities of the scanned resources, and each ACTIVE row has
\* the content of the scanned resource of its identity (file_hash is the
\* digest of the document; version and data are written by the same
\* assignments as file_hash).
C35_PostScanConsistency ==
    Committed =>
      /\ { Identity(row) : row \in ActiveRows } = { Identity(Scanned[i]) : i \in 1..Len(Scanned) }
      /\ \A row \in ActiveRows : \A i \in 1..Len(Scanned) :
            Identity(row) = Identity(Scanned[i]) => row.file_hash = Scanned[i].file_hash

\* ------------------------------------------------------------------ C36: one change per row

\* The changes of the last scan that are about a persisted row.
RowChanges == last.changeset.modified \o last.changeset.deleted

\* C36: within one committed scan no persisted row is the subject of more
\* than one MODIFIED, RESURRECTED or DELETED change, and each row gets at
\* most one lifecycle event with the scan's sync_run_id.
C36_OneChangePerRow ==
    Committed =>
      /\ \A i, j \in 1..Len(RowChanges) :
            i # j => RowChanges[i].existing_resource # RowChanges[j].existing_resource
      /\ \A i, j \in 1..Len(NewEvents) :
            i # j => NewEvents[i].resource_id # NewEvents[j].resource_id

\* ------------------------------------------------------------------ C37: soft delete, stable identity

\* The fields of a row no scan rewrites.
StableFields(row) ==
    <<row.id, row.repository_id, row.api_version, row.kind, row.name, row.namespace>>

\* The scan of this step has a change of the given type for row i.
ChangeOf(type, i) ==
    \E k \in 1..Len(AllChanges(last'.changeset)) :
      /\ AllChanges(last'.changeset)[k].type = type
      /\ AllChanges(last'.changeset)[k].existing_resource = i

\* The scan of this step found a resource with the identity of row.
FoundAgain(row) ==
    \E k \in 1..Len(committed'[row.repository_id].scanned) :
      Identity(committed'[row.repository_id].scanned[k]) = Identity(row)

\* C37: no scan removes a row or changes its id, repository, apiVersion,
\* kind, name or namespace; the ids of a repository only grow; a status
\* changes only from ACTIVE to DELETED, for a resource absent from the scan,
\* and from DELETED to ACTIVE, by a resurrection.
C37_SoftDelete ==
    [][ /\ Len(resources') >= Len(resources)
        /\ \A i \in Ids(resources) :
             /\ StableFields(resources'[i]) = StableFields(resources[i])
             /\ resources'[i].status \in {"ACTIVE", "DELETED"}
             /\ ( resources[i].status = "ACTIVE" /\ resources'[i].status = "DELETED" )
                  => /\ last'.repository_id = resources[i].repository_id
                     /\ ChangeOf("DELETED", i)
                     /\ ~FoundAgain(resources[i])
             /\ ( resources[i].status = "DELETED" /\ resources'[i].status = "ACTIVE" )
                  => /\ last'.repository_id = resources[i].repository_id
                     /\ ChangeOf("RESURRECTED", i)
        /\ \A i \in Ids(resources') \ Ids(resources) :
             /\ resources'[i].id = i
             /\ resources'[i].status = "ACTIVE"
      ]_vars

\* A repository with a row that was deleted and resurrected, next to a row
\* that is deleted.
C37_Witness ==
    /\ \E i \in Ids(resources) :
         /\ resources[i].status = "ACTIVE"
         /\ \E e \in Range(events) : e.resource_id = i /\ e.event_type = "DELETED"
         /\ \E e \in Range(events) : e.resource_id = i /\ e.event_type = "RESURRECTED"
    /\ \E j \in Ids(resources) : resources[j].status = "DELETED"

\* ------------------------------------------------------------------ C38: the resource of an event

\* The event names a persisted row and repeats its identity fields.
NamesItsResource(e) ==
    /\ e.resource_id # Null
    /\ e.resource_id \in Ids(resources)
    /\ \E row \in {resources[e.resource_id]} :
         /\ e.repository_id = row.repository_id
         /\ e.resource_name = row.name
         /\ e.resource_namespace = row.namespace
         /\ e.resource_kind = row.kind
         /\ e.resource_api_version = row.api_version
    /\ e.file_path # None

\* C38: every lifecycle event a scan persists, of every type, CREATED
\* included, carries the non-null id of the row it concerns and that row's
\* name, namespace, kind and apiVersion, and a file path.
C38_EventsNameResources ==
    \A i \in 1..Len(events) : NamesItsResource(events[i])

====
